---- MODULE Spec2Model ----
(***************************************************************************)
(* A model of the FreshIn routing and merge engine:                        *)
(*   - VDBFreshInEngine (vdb_freshin_engine.py): discovery, per-file and   *)
(*     per-batch classification, routing and execution, persisted          *)
(*     processed-file state, audit report;                                 *)
(*   - MetadataMerger / FreshInIngestionEngine (freshin_meta_merger,       *)
(*     freshin_ingest): the canonical table, _update_value, the merge      *)
(*     steps, the schema guard of save_database, run_merge.                *)
(* Python values are tagged records: scalars carry a field t, containers   *)
(* a field k.  Strings that the code inspects character by character are   *)
(* sequences of one-character strings.                                     *)
(***************************************************************************)
EXTENDS Integers, Sequences, FiniteSets, TLC

\* ------------------------------------------------------------------ bounds
MaxFiles == 2
MaxRuns == 2
MaxCalls == 2

\* ------------------------------------------------------------ Python values
NoneV == [t |-> "none"]
NaNV == [t |-> "nan"]
Str(s) == [t |-> "str", s |-> s]
Num(n) == [t |-> "num", n |-> n]
PList(items) == [k |-> "list", items |-> items]
PDict(d) == [k |-> "dict", d |-> d]
\* a source or batch-type name, kept as one string
Name(s) == [t |-> "name", v |-> s]
EmptyDict == PDict(<<>>)

IsScalar(x) == "t" \in DOMAIN x
IsList(x) == "k" \in DOMAIN x /\ x.k = "list"
IsDict(x) == "k" \in DOMAIN x /\ x.k = "dict"
Keys(x) == DOMAIN x.d
HasKey(x, key) == IsDict(x) /\ key \in Keys(x)

\* bool(x) of Python
Truthy(x) ==
    IF IsList(x) THEN Len(x.items) > 0
    ELSE IF IsDict(x) THEN Keys(x) # {}
    ELSE IF x.t = "none" THEN FALSE
    ELSE IF x.t = "str" THEN x.s # <<>>
    ELSE IF x.t = "num" THEN x.n # 0
    ELSE TRUE

Range(s) == {s[i] : i \in DOMAIN s}

\* Python evaluates the arguments of a call once, before the call: an operator
\* that stands for a function binds each argument to its value through One
One(S) == CHOOSE x \in S : TRUE

RECURSIVE SumSeq(_)
SumSeq(s) == IF s = <<>> THEN 0 ELSE Head(s) + SumSeq(Tail(s))

RECURSIVE SelectSeqIdx(_, _)
\* the members of the finite set S of integers, largest first
SelectSeqIdx(S, acc) ==
    IF S = {} THEN acc
    ELSE LET m == CHOOSE x \in S : \A y \in S : y <= x
         IN SelectSeqIdx(S \ {m}, Append(acc, m))

\* ------------------------------------------------------- DataTypeDetector
SOURCE_MAPPING ==
    [tmdb |-> [trending_movies_week |-> "trending_data",
               trending_tv_week |-> "trending_data",
               popular_movies |-> "title_metadata",
               popular_tv |-> "title_metadata",
               top_rated_movies |-> "title_metadata",
               top_rated_tv |-> "title_metadata",
               upcoming_movies |-> "title_metadata",
               now_playing_movies |-> "title_metadata",
               on_the_air_tv |-> "title_metadata",
               airing_today_tv |-> "title_metadata",
               movie_genres |-> "title_metadata",
               tv_genres |-> "title_metadata"],
     flixpatrol |-> [titles |-> "flixpatrol_titles",
                     default |-> "flixpatrol_titles",
                     rankings |-> "viewership_data",
                     points |-> "viewership_data",
                     top10 |-> "viewership_data"],
     streaming_availability |-> [countries |-> "platform_avail",
                                 genres |-> "title_metadata",
                                 shows |-> "platform_avail",
                                 new_shows |-> "platform_changes"],
     twitter_trends |-> [places |-> "social_signals", trends |-> "social_signals"],
     seeking_alpha |-> [default |-> "financial_data", company_search |-> "financial_data"],
     reuters |-> [default |-> "news_events", news_technology |-> "news_events",
                  news_media |-> "news_events", news_business |-> "news_events"],
     disney_plus |-> [default |-> "platform_avail", titles |-> "platform_avail",
                      random_title |-> "platform_avail"],
     imdb |-> [default |-> "title_metadata", genres |-> "title_metadata"]]

\* str.lower() on the source names the inputs use
Lower(s) ==
    CASE s = "FlixPatrol" -> "flixpatrol"
      [] s = "TMDB" -> "tmdb"
      [] OTHER -> s

\* variant of _detect_from_content that tests the metadata keys first
_detect_from_content_MetadataFirst(data) ==
    LET keys == IF IsDict(data) THEN Keys(data) ELSE {}
    IN IF keys \cap {"imdb_id", "tmdb_id", "title", "premiere", "genres"} # {}
         THEN "title_metadata"
       ELSE IF keys \cap {"views", "hours_viewed", "points", "ranking", "watch_time"} # {}
         THEN "viewership_data"
       ELSE IF keys \cap {"services", "streaming", "platform", "availability", "countrycode"} # {}
         THEN "platform_avail"
       ELSE IF keys \cap {"changes", "shows"} # {} /\ "changes" \in keys
         THEN "platform_changes"
       ELSE IF keys \cap {"trending", "trends", "hashtags", "mentions", "sentiment"} # {}
         THEN "social_signals"
       ELSE IF keys \cap {"revenue", "subscribers", "stock", "market_cap", "earnings"} # {}
         THEN "financial_data"
       ELSE "unknown"

\* keys = set(str(k).lower() for k in data.keys()); the inputs use lower-case keys
_detect_from_content(data) ==
    LET keys == IF IsDict(data) THEN Keys(data) ELSE {}
    IN IF keys \cap {"views", "hours_viewed", "points", "ranking", "watch_time"} # {}
         THEN "viewership_data"
       ELSE IF keys \cap {"imdb_id", "tmdb_id", "title", "premiere", "genres"} # {}
         THEN "title_metadata"
       ELSE IF keys \cap {"services", "streaming", "platform", "availability", "countrycode"} # {}
         THEN "platform_avail"
       ELSE IF keys \cap {"changes", "shows"} # {} /\ "changes" \in keys
         THEN "platform_changes"
       ELSE IF keys \cap {"trending", "trends", "hashtags", "mentions", "sentiment"} # {}
         THEN "social_signals"
       ELSE IF keys \cap {"revenue", "subscribers", "stock", "market_cap", "earnings"} # {}
         THEN "financial_data"
       ELSE "unknown"

_get_skip_reason(source, data_type) == "unknown_data_type"

\* the tail of detect: content sniffing, else unknown_source
DetectTail(data) ==
    IF data # NoneV /\ Truthy(data)
    THEN LET dt == _detect_from_content(data)
         IN IF dt = "unknown" THEN <<dt, "unknown_data_type">> ELSE <<dt, "">>
    ELSE <<"unknown", "unknown_source">>

\* variant of detect that sniffs the payload before it consults the table
detect_SniffFirst(source, data_type, data) ==
    LET source_lower == Lower(source)
    IN IF data # NoneV /\ Truthy(data) /\ _detect_from_content(data) # "unknown"
       THEN <<_detect_from_content(data), "">>
       ELSE IF source_lower \in DOMAIN SOURCE_MAPPING
       THEN LET type_map == SOURCE_MAPPING[source_lower]
            IN IF data_type # "" /\ data_type \in DOMAIN type_map
               THEN <<type_map[data_type], "">>
               ELSE IF "default" \in DOMAIN type_map
               THEN <<type_map["default"], "">>
               ELSE DetectTail(data)
       ELSE DetectTail(data)

\* detect(source, data_type, data) -> (DataType, skip_reason); data is a dict or None
detect(source, data_type, data) ==
    LET source_lower == Lower(source)
    IN IF source_lower \in DOMAIN SOURCE_MAPPING
       THEN LET type_map == SOURCE_MAPPING[source_lower]
            IN IF data_type # "" /\ data_type \in DOMAIN type_map
               THEN LET dt == type_map[data_type]
                    IN IF dt = "unknown"
                       THEN <<dt, _get_skip_reason(source_lower, data_type)>>
                       ELSE <<dt, "">>
               ELSE IF "default" \in DOMAIN type_map
               THEN <<type_map["default"], "">>
               ELSE DetectTail(data)
       ELSE DetectTail(data)

\* ----------------------------------------------------------- RoutingEngine
ROUTING_TABLE ==
    [title_metadata |-> [target |-> "BFD", action |-> "merge", key |-> "tmdb_id"],
     viewership_data |-> [target |-> "VIEWS_TRAINING", action |-> "append", key |-> "imdb_id"],
     platform_avail |-> [target |-> "COMPONENTS", action |-> "update", key |-> "country"],
     platform_changes |-> [target |-> "PLATFORM_MASTER", action |-> "update", key |-> "imdb_id"],
     flixpatrol_titles |-> [target |-> "BFD", action |-> "merge", key |-> "imdb_id"],
     social_signals |-> [target |-> "ABSTRACT_DATA", action |-> "append", key |-> "date"],
     financial_data |-> [target |-> "ABSTRACT_DATA", action |-> "append", key |-> "date"],
     news_events |-> [target |-> "ABSTRACT_DATA", action |-> "append", key |-> "date"],
     trending_data |-> [target |-> "BFD", action |-> "update", key |-> "tmdb_id"],
     unknown |-> [target |-> "SKIP", action |-> "skip", key |-> ""]]

\* variant of route that gives every decision full confidence
route_FullConfidence(data_type, source_file, records_count, skip_reason) ==
    LET routing == IF data_type \in DOMAIN ROUTING_TABLE
                   THEN ROUTING_TABLE[data_type] ELSE ROUTING_TABLE["unknown"]
    IN [source_file |-> source_file, data_type |-> data_type,
        target_db |-> routing.target, action |-> routing.action,
        records_count |-> records_count, key_field |-> routing.key,
        confidence |-> 10,
        reason |-> <<"Routed", data_type, "to", routing.target>>,
        skip_reason |-> skip_reason]

\* confidence is kept in tenths: 10 is 1.0, 5 is 0.5
route(data_type, source_file, records_count, skip_reason) ==
    LET routing == IF data_type \in DOMAIN ROUTING_TABLE
                   THEN ROUTING_TABLE[data_type] ELSE ROUTING_TABLE["unknown"]
    IN [source_file |-> source_file, data_type |-> data_type,
        target_db |-> routing.target, action |-> routing.action,
        records_count |-> records_count, key_field |-> routing.key,
        confidence |-> IF data_type # "unknown" THEN 10 ELSE 5,
        reason |-> <<"Routed", data_type, "to", routing.target>>,
        skip_reason |-> skip_reason]

\* -------------------------------------------------- strings and identifiers
Digits == {"0", "1", "2", "3", "4", "5", "6", "7", "8", "9"}
DigitVal(c) ==
    CASE c = "0" -> 0 [] c = "1" -> 1 [] c = "2" -> 2 [] c = "3" -> 3 [] c = "4" -> 4
      [] c = "5" -> 5 [] c = "6" -> 6 [] c = "7" -> 7 [] c = "8" -> 8 [] c = "9" -> 9
DigitChar(n) ==
    CASE n = 0 -> "0" [] n = 1 -> "1" [] n = 2 -> "2" [] n = 3 -> "3" [] n = 4 -> "4"
      [] n = 5 -> "5" [] n = 6 -> "6" [] n = 7 -> "7" [] n = 8 -> "8" [] n = 9 -> "9"

\* str.isdigit(): non-empty and every character a digit
IsDigit(s) == s # <<>> /\ \A i \in DOMAIN s : s[i] \in Digits

RECURSIVE LStrip(_)
LStrip(s) == IF s # <<>> /\ Head(s) = " " THEN LStrip(Tail(s)) ELSE s
RECURSIVE RStrip(_)
RStrip(s) == IF s # <<>> /\ s[Len(s)] = " " THEN RStrip(SubSeq(s, 1, Len(s) - 1)) ELSE s
\* str.strip()
Strip(s) == RStrip(LStrip(s))

RECURSIVE ParseInt(_)
\* int(s) of a digit string
ParseInt(s) == IF s = <<>> THEN 0 ELSE 10 * ParseInt(SubSeq(s, 1, Len(s) - 1)) + DigitVal(s[Len(s)])
RECURSIVE DigitsOf(_)
\* str(n) of a non-negative integer
DigitsOf(n) == IF n < 10 THEN <<DigitChar(n)>> ELSE Append(DigitsOf(n \div 10), DigitChar(n % 10))
RECURSIVE ZFill(_, _)
\* str.zfill(width)
ZFill(s, width) == IF Len(s) >= width THEN s ELSE ZFill(<<"0">> \o s, width)
StartsWithTT(s) == Len(s) >= 2 /\ s[1] = "t" /\ s[2] = "t"

ImdbPadWidth == 7

\* DatabaseWriters.convert_imdb_id: [raised, value].  int() of a string is
\* modelled on strings whose stripped form is all digits; int(nan) raises.
convert_imdb_id(numeric_id) ==
    IF ~IsScalar(numeric_id) THEN [raised |-> FALSE, value |-> Str(<<"[", "]">>)]
    ELSE IF numeric_id.t = "none" THEN [raised |-> FALSE, value |-> NoneV]
    ELSE IF numeric_id.t = "str"
      THEN IF StartsWithTT(numeric_id.s) THEN [raised |-> FALSE, value |-> numeric_id]
           ELSE IF IsDigit(Strip(numeric_id.s))
             THEN [raised |-> FALSE,
                   value |-> Str(<<"t", "t">> \o ZFill(DigitsOf(ParseInt(Strip(numeric_id.s))), ImdbPadWidth))]
             ELSE [raised |-> FALSE, value |-> numeric_id]
    ELSE IF numeric_id.t = "num"
      THEN [raised |-> FALSE,
            value |-> Str(<<"t", "t">> \o ZFill(DigitsOf(numeric_id.n), ImdbPadWidth))]
    ELSE [raised |-> TRUE, value |-> NoneV]

\* -------------------------------------------------------- DatabaseWriters
FLIXPATROL_FIELD_MAP ==
    [id |-> "flixpatrol_id", imdbId |-> "imdb_id", tmdbId |-> "tmdb_id", title |-> "title",
     premiere |-> "premiere_date", description |-> "overview", length |-> "runtime_minutes",
     budget |-> "budget", boxOffice |-> "box_office", countries |-> "production_countries",
     seasons |-> "max_seasons"]

MergeResult(target, action, total, new, updated, skipped, key_field, reason) ==
    [target |-> target, action |-> action, total_records |-> total, new_records |-> new,
     updated_records |-> updated, skipped_records |-> skipped, key_field |-> key_field,
     reason |-> reason]

\* "src_field in r": a dict tests its keys, a list its items, a string its
\* substrings (no field name is a substring of the strings used); None and
\* numbers raise TypeError
InRaises(r) == IsScalar(r) /\ r.t \in {"none", "num", "nan"}
FieldIn(src_field, r) == IsDict(r) /\ src_field \in Keys(r)

\* the mapped dict of one record, given the fields present and the converted imdbId
MappedOf(r_, present_, conv_) ==
    One({(
        [c \in {FLIXPATROL_FIELD_MAP[f] : f \in present} |->
            LET src_field == CHOOSE f \in present : FLIXPATROL_FIELD_MAP[f] = c
            IN IF src_field = "imdbId" THEN conv.value ELSE r.d[src_field]]
        ) : r \in {r_}, present \in {present_}, conv \in {conv_}})

MapWith(r_, present_, conv_) ==
    One({(
        [raised |-> InRaises(r) \/ conv.raised, mapped |-> MappedOf(r, present, conv)]
        ) : r \in {r_}, present \in {present_}, conv \in {conv_}})

\* variant of MapFlixRecord that renames in place: unmapped fields are kept
MapFlixRecord_RenameInPlace(r_) ==
    One({(
        [raised |-> InRaises(r),
         mapped |-> [c \in {IF f \in DOMAIN FLIXPATROL_FIELD_MAP THEN FLIXPATROL_FIELD_MAP[f]
                            ELSE f : f \in IF IsDict(r) THEN Keys(r) ELSE {}} |->
                        LET f == CHOOSE g \in Keys(r) :
                                    c = IF g \in DOMAIN FLIXPATROL_FIELD_MAP
                                        THEN FLIXPATROL_FIELD_MAP[g] ELSE g
                        IN r.d[f]]]
        ) : r \in {r_}})

\* the mapping loop for one record: [raised, mapped], mapped a dict by column
MapFlixRecord(r_) ==
    One({(
        MapWith(r, {f \in DOMAIN FLIXPATROL_FIELD_MAP : FieldIn(f, r)},
                IF FieldIn("imdbId", r) THEN convert_imdb_id(r.d["imdbId"])
                ELSE [raised |-> FALSE, value |-> NoneV])
        ) : r \in {r_}})

\* dict.get(key) with default None
DGet(m, key) == IF key \in DOMAIN m THEN m[key] ELSE NoneV

\* if mapped.get('imdb_id') or mapped.get('tmdb_id')
HasKeyField(mapped) == Truthy(DGet(mapped, "imdb_id")) \/ Truthy(DGet(mapped, "tmdb_id"))

\* the result once the records are mapped: n records, nt of them kept and
\* nskip counted in skipped_records
FlixResult(n_, nt_, nskip_, dry_run_) ==
    One({(
        IF dry_run
        THEN MergeResult("BFD", "merge", n, nt \div 2, nt - (nt \div 2), nskip, "imdb_id", "dry")
        ELSE MergeResult("BFD", "merge", nt, nt \div 2, nt - (nt \div 2), nskip, "imdb_id", "live")
        ) : n \in {n_}, nt \in {nt_}, nskip \in {nskip_}, dry_run \in {dry_run_}})

\* if not (mapped.get('imdb_id') or mapped.get('tmdb_id')): skipped_records += 1
LacksKeyField(mapped) == ~HasKeyField(mapped)

MergeMapped(maps_, dry_run_) ==
    One({(
        IF \E i \in DOMAIN maps : maps[i].raised
        THEN [raised |-> TRUE, result |-> NoneV]
        ELSE [raised |-> FALSE,
              result |-> FlixResult(Len(maps),
                                    Len(SelectSeq([i \in DOMAIN maps |-> maps[i].mapped], HasKeyField)),
                                    Len(SelectSeq([i \in DOMAIN maps |-> maps[i].mapped], LacksKeyField)),
                                    dry_run)]
        ) : maps \in {maps_}, dry_run \in {dry_run_}})

\* variant of merge_flixpatrol_to_bfd that forwards every mapped record
merge_flixpatrol_to_bfd_KeepsAll(records_, dry_run_) ==
    One({(
        IF records = <<>>
        THEN [raised |-> FALSE,
              result |-> MergeResult("BFD", "merge", 0, 0, 0, 0, "imdb_id", "empty")]
        ELSE IF \E i \in DOMAIN records : MapFlixRecord(records[i]).raised
        THEN [raised |-> TRUE, result |-> NoneV]
        ELSE [raised |-> FALSE, result |-> FlixResult(Len(records), Len(records), 0, dry_run)]
        ) : records \in {records_}, dry_run \in {dry_run_}})

\* merge_flixpatrol_to_bfd: [raised, result]
merge_flixpatrol_to_bfd(records_, dry_run_) ==
    One({(
        IF records = <<>>
        THEN [raised |-> FALSE,
              result |-> MergeResult("BFD", "merge", 0, 0, 0, 0, "imdb_id", "empty")]
        ELSE MergeMapped([i \in DOMAIN records |-> MapFlixRecord(records[i])], dry_run)
        ) : records \in {records_}, dry_run \in {dry_run_}})

merge_to_bfd(records_, key_field_, dry_run_) ==
    One({(
        IF records = <<>>
        THEN MergeResult("BFD", "merge", 0, 0, 0, 0, key_field, "empty")
        ELSE MergeResult("BFD", "merge", Len(records), Len(records) \div 3,
                         Len(records) - (Len(records) \div 3), 0, key_field,
                         IF dry_run THEN "dry" ELSE "live")
        ) : records \in {records_}, key_field \in {key_field_}, dry_run \in {dry_run_}})

append_to_views_training(records_, dry_run_) ==
    One({(
        MergeResult("VIEWS_TRAINING", "append", Len(records), Len(records), 0, 0, "imdb_id",
                    IF records = <<>> THEN "empty" ELSE IF dry_run THEN "dry" ELSE "live")
        ) : records \in {records_}, dry_run \in {dry_run_}})

append_to_abstract_data(records_, dry_run_) ==
    One({(
        MergeResult("ABSTRACT_DATA", "append", Len(records), Len(records), 0, 0, "date",
                    IF records = <<>> THEN "empty" ELSE IF dry_run THEN "dry" ELSE "live")
        ) : records \in {records_}, dry_run \in {dry_run_}})

update_streaming_lookup(dry_run) ==
    MergeResult("COMPONENTS", "update", 1, 0, 1, 0, "country", IF dry_run THEN "dry" ELSE "live")

\* a dict key from a one-character string value (show ids are one character here)
KeyOf(v) == IF IsScalar(v) /\ v.t = "str" /\ Len(v.s) = 1 THEN v.s[1] ELSE "?"

\* the imdb id a change resolves to through shows, or None
ChangeImdb(change, shows) ==
    LET show_id == DGet(change.d, "showId")
    IN IF Truthy(show_id) /\ IsDict(shows) /\ KeyOf(show_id) \in Keys(shows)
          /\ IsDict(shows.d[KeyOf(show_id)])
       THEN LET imdb_id == DGet(shows.d[KeyOf(show_id)].d, "imdbId")
            IN IF Truthy(imdb_id) THEN imdb_id ELSE NoneV
       ELSE NoneV

\* the master file after the new mappings are merged in and written
MasterMerged(master, imdbs, platform_mappings) ==
    [m \in DOMAIN master \cup platform_mappings |->
        (IF m \in DOMAIN master THEN master[m] ELSE 0)
        + Cardinality({i \in DOMAIN imdbs : imdbs[i] = m})]

PlatformWith(n_, imdbs_, platform_mappings_, master_, dry_run_) ==
    One({(
        IF dry_run
        THEN [raised |-> FALSE, master |-> master,
              result |-> MergeResult("PLATFORM_MASTER", "update", n,
                                     Cardinality({i \in DOMAIN imdbs : imdbs[i] # NoneV}), 0, 0,
                                     "imdb_id", "dry")]
        ELSE [raised |-> FALSE, master |-> MasterMerged(master, imdbs, platform_mappings),
              result |-> MergeResult("PLATFORM_MASTER", "update", n,
                                     Cardinality({i \in DOMAIN imdbs : imdbs[i] # NoneV}),
                                     Cardinality(platform_mappings \cap DOMAIN master), 0,
                                     "imdb_id", "live")]
        ) : n \in {n_}, imdbs \in {imdbs_}, platform_mappings \in {platform_mappings_},
            master \in {master_}, dry_run \in {dry_run_}})

PlatformChanges(changes_, shows_, master_, dry_run_) ==
    One({(
        IF changes = <<>>
        THEN [raised |-> FALSE, master |-> master,
              result |-> MergeResult("PLATFORM_MASTER", "update", 0, 0, 0, 0, "imdb_id", "empty")]
        ELSE IF \E i \in DOMAIN changes : ~IsDict(changes[i])
        THEN [raised |-> TRUE, master |-> master, result |-> NoneV]
        ELSE PlatformWith(Len(changes), [i \in DOMAIN changes |-> ChangeImdb(changes[i], shows)],
                          {ChangeImdb(changes[i], shows) : i \in DOMAIN changes} \ {NoneV},
                          master, dry_run)
        ) : changes \in {changes_}, shows \in {shows_}, master \in {master_},
            dry_run \in {dry_run_}})

\* update_platform_availability: [raised, result, master].  The master file
\* is kept as imdb id -> number of platform entries (countries not told apart);
\* 'changes' is a list in the inputs.
update_platform_availability(data_, master_, dry_run_) ==
    One({(
        PlatformChanges(IF HasKey(data, "changes") THEN data.d["changes"].items ELSE <<>>,
                        IF HasKey(data, "shows") THEN data.d["shows"] ELSE EmptyDict,
                        master, dry_run)
        ) : data \in {data_}, master \in {master_}, dry_run \in {dry_run_}})

\* ------------------------------------------------------- VDBFreshInEngine
ZeroStats ==
    [files_processed |-> 0, records_routed |-> 0, bfd_updates |-> 0, bfd_new |-> 0,
     star_schema_updates |-> 0, views_training_appends |-> 0, abstract_data_appends |-> 0,
     components_updates |-> 0, platform_changes_processed |-> 0,
     flixpatrol_titles_processed |-> 0, skipped |-> 0,
     errors |-> <<>>, skip_details |-> <<>>, merge_results |-> <<>>]

IsDictItem(x) == IsDict(x)
NormItem(item) ==
    IF HasKey(item, "data") /\ IsDict(item.d["data"]) THEN item.d["data"] ELSE item

\* _normalize_to_records (the nesting of the inputs is at most one level)
_normalize_to_records(data) ==
    LET ofList(items) == LET dicts == SelectSeq(items, IsDictItem)
                         IN [i \in DOMAIN dicts |-> NormItem(dicts[i])]
    IN IF IsList(data) THEN ofList(data.items)
       ELSE IF IsDict(data)
         THEN IF HasKey(data, "data") /\ IsList(data.d["data"]) THEN ofList(data.d["data"].items)
              ELSE IF HasKey(data, "results") /\ IsList(data.d["results"])
                THEN ofList(data.d["results"].items)
              ELSE <<data>>
       ELSE <<>>

PlatformStats(st_, n_changes_, w_) ==
    One({(
        IF w.raised THEN [raised |-> TRUE, stats |-> st, master |-> w.master]
        ELSE [raised |-> FALSE, master |-> w.master,
              stats |-> [st EXCEPT
                  !.platform_changes_processed = @ + w.result.new_records,
                  !.merge_results = Append(@, w.result),
                  !.records_routed = @ + n_changes]]
        ) : st \in {st_}, n_changes \in {n_changes_}, w \in {w_}})

\* _handle_platform_changes: [raised, stats, master]
_handle_platform_changes(st_, master_, data_, dry_run_) ==
    One({(
        IF ~IsDict(data) \/ ~HasKey(data, "changes") \/ ~Truthy(data.d["changes"])
        THEN [raised |-> FALSE, stats |-> st, master |-> master]
        ELSE PlatformStats(st, Len(data.d["changes"].items),
                           update_platform_availability(data, master, dry_run))
        ) : st \in {st_}, master \in {master_}, data \in {data_}, dry_run \in {dry_run_}})

\* the records _handle_flixpatrol_titles extracts
FlixRecords(data) ==
    IF IsDict(data)
    THEN IF HasKey(data, "data")
         THEN IF IsList(data.d["data"]) THEN data.d["data"].items
              ELSE IF IsDict(data.d["data"]) THEN <<data.d["data"]>> ELSE <<>>
         ELSE <<data>>
    ELSE IF IsList(data) THEN data.items
    ELSE <<>>

FlixStats(st_, master_, w_) ==
    One({(
        IF w.raised THEN [raised |-> TRUE, stats |-> st, master |-> master]
        ELSE [raised |-> FALSE, master |-> master,
              stats |-> [st EXCEPT
                  !.flixpatrol_titles_processed = @ + w.result.total_records,
                  !.bfd_updates = @ + w.result.total_records,
                  !.bfd_new = @ + w.result.new_records,
                  !.merge_results = Append(@, w.result),
                  !.records_routed = @ + w.result.total_records]]
        ) : st \in {st_}, master \in {master_}, w \in {w_}})

FlixHandle(st_, master_, records_, dry_run_) ==
    One({(
        IF records = <<>> THEN [raised |-> FALSE, stats |-> st, master |-> master]
        ELSE FlixStats(st, master, merge_flixpatrol_to_bfd(records, dry_run))
        ) : st \in {st_}, master \in {master_}, records \in {records_}, dry_run \in {dry_run_}})

\* _handle_flixpatrol_titles: [raised, stats, master]
_handle_flixpatrol_titles(st_, master_, data_, dry_run_) ==
    One({(
        FlixHandle(st, master, FlixRecords(data), dry_run)
        ) : st \in {st_}, master \in {master_}, data \in {data_}, dry_run \in {dry_run_}})

\* the COMPONENTS branch: one update_streaming_lookup per dict-valued key
ComponentCountries(data) ==
    IF IsDict(data)
    THEN {c \in Keys(data) : c \notin {"type", "source"} /\ IsDict(data.d[c])}
    ELSE {}

RECURSIVE AppendN(_, _, _)
AppendN(seq, x, n) == IF n = 0 THEN seq ELSE AppendN(Append(seq, x), x, n - 1)

WithBfd(st_, r_) ==
    One({(
        [st EXCEPT !.bfd_updates = @ + r.total_records, !.bfd_new = @ + r.new_records,
                   !.merge_results = Append(@, r)]
        ) : st \in {st_}, r \in {r_}})
WithViews(st_, r_) ==
    One({(
        [st EXCEPT !.views_training_appends = @ + r.total_records, !.merge_results = Append(@, r)]
        ) : st \in {st_}, r \in {r_}})
WithAbstract(st_, r_) ==
    One({(
        [st EXCEPT !.abstract_data_appends = @ + r.total_records, !.merge_results = Append(@, r)]
        ) : st \in {st_}, r \in {r_}})
WithComponents(st_, n_, r_) ==
    One({(
        [st EXCEPT !.components_updates = @ + n, !.merge_results = AppendN(@, r, n)]
        ) : st \in {st_}, n \in {n_}, r \in {r_}})

\* the target branches of _execute_decision, given the normalized records
ExecuteTarget(st_, decision_, records_, data_, dry_run_) ==
    One({(
        IF decision.target_db = "BFD"
        THEN WithBfd(st, merge_to_bfd(records, decision.key_field, dry_run))
        ELSE IF decision.target_db = "VIEWS_TRAINING"
        THEN WithViews(st, append_to_views_training(records, dry_run))
        ELSE IF decision.target_db = "ABSTRACT_DATA"
        THEN WithAbstract(st, append_to_abstract_data(records, dry_run))
        ELSE IF decision.target_db = "COMPONENTS"
        THEN WithComponents(st, Cardinality(ComponentCountries(data)), update_streaming_lookup(dry_run))
        ELSE st
        ) : st \in {st_}, decision \in {decision_}, records \in {records_},
            data \in {data_}, dry_run \in {dry_run_}})

Routed(st_, n_) ==
    One({(
        [st EXCEPT !.records_routed = @ + n]
        ) : st \in {st_}, n \in {n_}})

\* variant of _execute_decision whose skip branch also counts the records as routed
_execute_decision_RoutesSkips(st_, master_, decision_, data_, dry_run_) ==
    One({(
        IF decision.action = "skip"
        THEN [raised |-> FALSE, master |-> master,
              stats |-> [st EXCEPT
                  !.skipped = @ + decision.records_count,
                  !.records_routed = @ + decision.records_count,
                  !.skip_details = Append(@, [source |-> decision.source_file,
                                              type |-> decision.data_type,
                                              count |-> decision.records_count,
                                              reason |-> decision.skip_reason])]]
        ELSE IF decision.data_type = "platform_changes"
        THEN _handle_platform_changes(st, master, data, dry_run)
        ELSE IF decision.data_type = "flixpatrol_titles"
        THEN _handle_flixpatrol_titles(st, master, data, dry_run)
        ELSE [raised |-> FALSE, master |-> master,
              stats |-> Routed(ExecuteTarget(st, decision, _normalize_to_records(data), data, dry_run),
                               decision.records_count)]
        ) : st \in {st_}, master \in {master_}, decision \in {decision_},
            data \in {data_}, dry_run \in {dry_run_}})

\* _execute_decision: [raised, stats, master]
_execute_decision(st_, master_, decision_, data_, dry_run_) ==
    One({(
        IF decision.action = "skip"
        THEN [raised |-> FALSE, master |-> master,
              stats |-> [st EXCEPT
                  !.skipped = @ + decision.records_count,
                  !.skip_details = Append(@, [source |-> decision.source_file,
                                              type |-> decision.data_type,
                                              count |-> decision.records_count,
                                              reason |-> decision.skip_reason])]]
        ELSE IF decision.data_type = "platform_changes"
        THEN _handle_platform_changes(st, master, data, dry_run)
        ELSE IF decision.data_type = "flixpatrol_titles"
        THEN _handle_flixpatrol_titles(st, master, data, dry_run)
        ELSE [raised |-> FALSE, master |-> master,
              stats |-> Routed(ExecuteTarget(st, decision, _normalize_to_records(data), data, dry_run),
                               decision.records_count)]
        ) : st \in {st_}, master \in {master_}, decision \in {decision_},
            data \in {data_}, dry_run \in {dry_run_}})

\* the record count _route_batch gives the decision
RouteCount(data) ==
    IF IsList(data) THEN Len(data.items)
    ELSE IF HasKey(data, "data")
      THEN IF IsList(data.d["data"]) THEN Len(data.d["data"].items) ELSE 1
    ELSE IF HasKey(data, "changes")
      THEN IF IsList(data.d["changes"]) THEN Len(data.d["changes"].items) ELSE 0
    ELSE 1

\* the decision of _route_batch, given detect's pair
DecisionOf(dd_, source_, batch_type_, filename_, count_) ==
    One({(
        [route(dd[1], filename, count, dd[2]) EXCEPT !.reason = <<source, batch_type, "->", @[4]>>]
        ) : dd \in {dd_}, source \in {source_}, batch_type \in {batch_type_},
            filename \in {filename_}, count \in {count_}})

WithDecision(ex_, decision_) ==
    One({(
        [raised |-> ex.raised, stats |-> ex.stats, master |-> ex.master, decision |-> decision]
        ) : ex \in {ex_}, decision \in {decision_}})

Executed(st_, master_, decision_, data_, dry_run_) ==
    One({(
        WithDecision(_execute_decision(st, master, decision, data, dry_run), decision)
        ) : st \in {st_}, master \in {master_}, decision \in {decision_},
            data \in {data_}, dry_run \in {dry_run_}})

\* variant of _route_batch whose skip reason depends on what was skipped before
_route_batch_Stateful(st_, master_, source_, batch_type_, data_, filename_, dry_run_) ==
    One({(
        Executed(st, master,
                 DecisionOf(IF st.skipped > 0
                            THEN <<detect(source, batch_type,
                                          IF IsDict(data) THEN data ELSE NoneV)[1],
                                   "unknown_data_type">>
                            ELSE detect(source, batch_type, IF IsDict(data) THEN data ELSE NoneV),
                            source, batch_type, filename, RouteCount(data)),
                 data, dry_run)
        ) : st \in {st_}, master \in {master_}, source \in {source_},
            batch_type \in {batch_type_}, data \in {data_}, filename \in {filename_},
            dry_run \in {dry_run_}})

\* _route_batch: [raised, stats, master, decision]
_route_batch(st_, master_, source_, batch_type_, data_, filename_, dry_run_) ==
    One({(
        Executed(st, master,
                 DecisionOf(detect(source, batch_type, IF IsDict(data) THEN data ELSE NoneV),
                            source, batch_type, filename, RouteCount(data)),
                 data, dry_run)
        ) : st \in {st_}, master \in {master_}, source \in {source_},
            batch_type \in {batch_type_}, data \in {data_}, filename \in {filename_},
            dry_run \in {dry_run_}})

\* ------------------------------------------------------------ input files
FlixRec == PDict([id |-> Num(42), imdbId |-> Num(76759), premiere |-> Str(<<"P">>)])
NoKeyRec == PDict([title |-> Str(<<"T">>)])
TmdbRec == PDict([id |-> Num(5), popularity |-> Num(9)])
ChangesData ==
    PDict([changes |-> PList(<<PDict([showId |-> Str(<<"a">>)]), PDict([showId |-> Str(<<"b">>)])>>),
           shows |-> PDict([a |-> PDict([imdbId |-> Str(<<"t", "t", "1">>)])])])

Batch(source, type, data) == PDict([source |-> Name(source), type |-> Name(type), data |-> data])

JsonFile(pattern, date, parse_ok, top) ==
    [pattern |-> pattern, date |-> date, suffix |-> "json", parse_ok |-> parse_ok,
     top |-> top, rows |-> 0]
ParquetFile(pattern, date, parse_ok, rows) ==
    [pattern |-> pattern, date |-> date, suffix |-> "parquet", parse_ok |-> parse_ok,
     top |-> NoneV, rows |-> rows]

\* the file contents a directory is drawn from
FilePool ==
    { JsonFile("flixpatrol", "today", TRUE,
               PList(<<Batch("flixpatrol", "titles", PDict([data |-> PList(<<FlixRec, NoKeyRec>>)])),
                       Batch("unknown_api", "x", EmptyDict)>>)),
      JsonFile("tmdb", "today", FALSE, NoneV),
      JsonFile("streaming_availability", "today", TRUE,
               PList(<<Batch("streaming_availability", "new_shows", ChangesData), Num(7)>>)),
      JsonFile("tmdb", "old", TRUE,
               PList(<<Batch("tmdb", "popular_movies", PList(<<TmdbRec, TmdbRec>>))>>)),
      JsonFile("flixpatrol", "old", TRUE,
               PList(<<Batch("unknown_api", "x", EmptyDict),
                       Batch("flixpatrol", "titles", PDict([data |-> PList(<<FlixRec, Num(7)>>)]))>>)),
      ParquetFile("cranberry_fresh", "today", TRUE, 3) }

FileIds == 1 .. MaxFiles
DateArgs == {"today", "all"}

\* the glob patterns of discover_fresh_files
JsonPatterns == {"fresh_data", "tmdb", "flixpatrol", "streaming_availability", "twitter_trends",
                 "seeking_alpha", "reuters", "disney_plus", "imdb"}
MatchesPattern(file) ==
    \/ file.suffix = "json" /\ file.pattern \in JsonPatterns
    \/ file.suffix = "parquet" /\ file.pattern = "cranberry_fresh"

\* filepath.stem.split('_')[0]
Stem0(pattern) ==
    CASE pattern = "fresh_data" -> "fresh"
      [] pattern = "streaming_availability" -> "streaming"
      [] pattern = "twitter_trends" -> "twitter"
      [] pattern = "seeking_alpha" -> "seeking"
      [] pattern = "disney_plus" -> "disney"
      [] pattern = "cranberry_fresh" -> "cranberry"
      [] OTHER -> pattern

\* one batch as _process_json reads it: bad when batch.get raises
BatchOf(item, default_source) ==
    IF ~IsDict(item) THEN [bad |-> TRUE, source |-> "", type |-> "", data |-> NoneV]
    ELSE [bad |-> FALSE,
          source |-> IF HasKey(item, "source") THEN item.d["source"].v ELSE default_source,
          type |-> IF HasKey(item, "type") THEN item.d["type"].v ELSE "default",
          data |-> IF HasKey(item, "data") THEN item.d["data"] ELSE item]

\* the batches of a parsed file, in order (_process_json, _process_parquet)
Batches(file) ==
    IF file.suffix = "parquet"
    THEN <<[bad |-> FALSE, source |-> "parquet", type |-> "", data |-> PList(<<>>)]>>
    ELSE LET data == file.top
         IN IF IsList(data)
            THEN [i \in DOMAIN data.items |-> BatchOf(data.items[i], "unknown")]
            ELSE IF IsDict(data)
            THEN IF HasKey(data, "results")
                 THEN [i \in DOMAIN data.d["results"].items |->
                          BatchOf(data.d["results"].items[i], Stem0(file.pattern))]
                 ELSE <<[bad |-> FALSE, source |-> Stem0(file.pattern), type |-> "default",
                         data |-> data]>>
            ELSE <<>>

\* ------------------------------------------------------ AuditReportGenerator
\* AuditReportGenerator.generate, as a function of the engine's fields
generate(run_id, st, dry, discovered, all_decs) ==
    LET routes == {<<all_decs[i].data_type, all_decs[i].target_db>> : i \in DOMAIN all_decs}
        counts(sel) == [i \in DOMAIN sel |-> sel[i].records_count]
        IsSkip(d) == d.action = "skip"
        IsMerge(mr) == mr.action \in {"merge", "update"}
        IsAppend(mr) == mr.action \notin {"merge", "update"}
        skips == SelectSeq(all_decs, IsSkip)
    IN [run_id |-> run_id,
        mode |-> IF dry THEN "DRY RUN" ELSE "LIVE",
        files_discovered |-> Len(discovered),
        files_processed |-> st.files_processed,
        total_records_in |-> SumSeq(counts(all_decs)),
        total_records_routed |-> st.records_routed,
        routing_summary |->
            [r \in routes |->
                SumSeq([i \in DOMAIN all_decs |->
                          IF <<all_decs[i].data_type, all_decs[i].target_db>> = r
                          THEN all_decs[i].records_count ELSE 0])],
        skipped_batches |->
            [i \in DOMAIN skips |->
                [source_file |-> skips[i].source_file, data_type |-> skips[i].data_type,
                 records_count |-> skips[i].records_count,
                 skip_reason_code |-> skips[i].skip_reason]],
        successful_merges |-> SelectSeq(st.merge_results, IsMerge),
        successful_appends |-> SelectSeq(st.merge_results, IsAppend),
        skipped |-> st.skipped,
        errors |-> st.errors]

\* ------------------------------------------- merger: empties, identifiers
\* EMPTY_VALUES of freshin_meta_merger
EMPTY_VALUES ==
    {<<>>, <<"N", "o", "n", "e">>, <<"n", "o", "n", "e">>, <<"n", "a", "n">>,
     <<"N", "a", "N">>, <<"N", "U", "L", "L">>, <<"n", "u", "l", "l">>,
     <<"N", "/", "A">>, <<"n", "/", "a">>, <<"<", "N", "A", ">">>,
     <<"u", "n", "d", "e", "f", "i", "n", "e", "d">>}

\* EMPTY_VALUES of freshin_ingest: the same without 'undefined'
Ingest_EMPTY_VALUES ==
    {<<>>, <<"N", "o", "n", "e">>, <<"n", "o", "n", "e">>, <<"n", "a", "n">>,
     <<"N", "a", "N">>, <<"N", "U", "L", "L">>, <<"n", "u", "l", "l">>,
     <<"N", "/", "A">>, <<"n", "/", "a">>, <<"<", "N", "A", ">">>}

\* pd.isna on a scalar
IsNA(val) == val.t \in {"none", "nan"}

\* is_empty of freshin_meta_merger
is_empty(val) ==
    IF IsNA(val) THEN TRUE
    ELSE IF val.t = "str" THEN Strip(val.s) \in EMPTY_VALUES
    ELSE FALSE

\* is_empty of freshin_ingest
Ingest_is_empty(val) ==
    IF IsNA(val) THEN TRUE
    ELSE IF val.t = "str" THEN Strip(val.s) \in Ingest_EMPTY_VALUES
    ELSE FALSE

\* str(val) of a scalar that is not empty
PyStr(val) == IF val.t = "num" THEN DigitsOf(val.n) ELSE val.s

MergerPadWidth == 7

\* a variant that prefixes the digits without padding them
NormalizeStripped_NoPad(s) ==
    IF IsDigit(s) THEN Str(<<"t", "t">> \o s)
    ELSE IF StartsWithTT(s) THEN Str(s)
    ELSE NoneV

\* the tail of normalize_imdb_id, on the stripped string
NormalizeStripped(s) ==
    IF IsDigit(s) THEN Str(<<"t", "t">> \o ZFill(s, MergerPadWidth))
    ELSE IF StartsWithTT(s) THEN Str(s)
    ELSE NoneV

\* normalize_imdb_id of freshin_meta_merger: a tt string or None
normalize_imdb_id(val) ==
    IF is_empty(val) THEN NoneV ELSE NormalizeStripped(Strip(PyStr(val)))

\* normalize_imdb_id of freshin_ingest
Ingest_normalize_imdb_id(val) ==
    IF Ingest_is_empty(val) THEN NoneV ELSE NormalizeStripped(Strip(PyStr(val)))

\* int(x) inside try/except (ValueError, TypeError): [ok, n]
TryInt(x) ==
    IF x.t = "num" THEN [ok |-> TRUE, n |-> x.n]
    ELSE IF x.t = "str" /\ IsDigit(Strip(x.s)) THEN [ok |-> TRUE, n |-> ParseInt(Strip(x.s))]
    ELSE [ok |-> FALSE, n |-> 0]

\* ------------------------------------------------------------ ColumnMapper
\* str.lower().strip() on the column names the callers use
ColLower(column_name) ==
    CASE column_name = "Premiere" -> "premiere"
      [] OTHER -> column_name

\* ColumnMapper.to_canonical; mapper = [translation_map, canonical_columns]
to_canonical(mapper, column_name) ==
    IF column_name = "" THEN column_name
    ELSE IF ColLower(column_name) \in DOMAIN mapper.translation_map
      THEN mapper.translation_map[ColLower(column_name)]
    ELSE IF ColLower(column_name) \in mapper.canonical_columns
      THEN ColLower(column_name)
    ELSE IF column_name \in DOMAIN mapper.translation_map
      THEN mapper.translation_map[column_name]
    ELSE column_name

\* ------------------------------------------------------- the table (bfd)
\* a DataFrame: [cols, rows], rows a function from row index to a row, a row a
\* function from column name to a scalar
\* DataFrame.at[idx, col] = value: sets the cell; a column the frame does not
\* have is created, NaN in the other rows
AtSet(tbl_, idx_, col_, value_) ==
    One({(
        IF col \in tbl.cols
        THEN [tbl EXCEPT !.rows[idx][col] = value]
        ELSE [cols |-> tbl.cols \cup {col},
              rows |-> [r \in DOMAIN tbl.rows |->
                          [c \in tbl.cols \cup {col} |->
                              IF c = col THEN (IF r = idx THEN value ELSE NaNV)
                              ELSE tbl.rows[r][c]]]]
        ) : tbl \in {tbl_}, idx \in {idx_}, col \in {col_}, value \in {value_}})

UpdateRet(raised, ret, tbl) == [raised |-> raised, ret |-> ret, bfd |-> tbl]

\* _update_value from the read of the current cell on (both engines)
UpdateCurrent(tbl_, idx_, col_, value_, mode_, current_, current_empty_) ==
    One({(
        IF mode = "MERGE"
        THEN IF current_empty THEN UpdateRet(FALSE, TRUE, AtSet(tbl, idx, col, value))
             ELSE UpdateRet(FALSE, FALSE, tbl)
        ELSE IF mode = "OVERWRITE"
        THEN IF IsNA(current) \/ current # value
             THEN UpdateRet(FALSE, TRUE, AtSet(tbl, idx, col, value))
             ELSE UpdateRet(FALSE, FALSE, tbl)
        ELSE UpdateRet(FALSE, FALSE, tbl)
        ) : tbl \in {tbl_}, idx \in {idx_}, col \in {col_},
            value \in {value_}, mode \in {mode_}, current \in {current_},
            current_empty \in {current_empty_}})

\* variant of _update_value that tests and reads the canonical column but
\* writes under the name it was called with
_update_value_RawColumn(mapper_, tbl_, bfd_columns_, idx_, column_, value_, mode_) ==
    One({(
        IF to_canonical(mapper, column) \notin bfd_columns THEN UpdateRet(FALSE, FALSE, tbl)
        ELSE IF is_empty(value) THEN UpdateRet(FALSE, FALSE, tbl)
        ELSE IF to_canonical(mapper, column) \notin tbl.cols THEN UpdateRet(TRUE, FALSE, tbl)
        ELSE UpdateCurrent(tbl, idx, column, value, mode,
                           tbl.rows[idx][to_canonical(mapper, column)],
                           is_empty(tbl.rows[idx][to_canonical(mapper, column)]))
        ) : mapper \in {mapper_}, tbl \in {tbl_}, bfd_columns \in {bfd_columns_},
            idx \in {idx_}, column \in {column_}, value \in {value_},
            mode \in {mode_}})

\* variant of _update_value without the test of the value
_update_value_AnyValue(mapper_, tbl_, bfd_columns_, idx_, column_, value_, mode_) ==
    One({(
        IF to_canonical(mapper, column) \notin bfd_columns THEN UpdateRet(FALSE, FALSE, tbl)
        ELSE IF to_canonical(mapper, column) \notin tbl.cols THEN UpdateRet(TRUE, FALSE, tbl)
        ELSE UpdateCurrent(tbl, idx, to_canonical(mapper, column), value, mode,
                           tbl.rows[idx][to_canonical(mapper, column)],
                           is_empty(tbl.rows[idx][to_canonical(mapper, column)]))
        ) : mapper \in {mapper_}, tbl \in {tbl_}, bfd_columns \in {bfd_columns_},
            idx \in {idx_}, column \in {column_}, value \in {value_},
            mode \in {mode_}})

\* variant of _update_value whose MERGE branch treats every cell as empty
_update_value_Clobber(mapper_, tbl_, bfd_columns_, idx_, column_, value_, mode_) ==
    One({(
        IF to_canonical(mapper, column) \notin bfd_columns THEN UpdateRet(FALSE, FALSE, tbl)
        ELSE IF is_empty(value) THEN UpdateRet(FALSE, FALSE, tbl)
        ELSE IF to_canonical(mapper, column) \notin tbl.cols THEN UpdateRet(TRUE, FALSE, tbl)
        ELSE UpdateCurrent(tbl, idx, to_canonical(mapper, column), value, mode,
                           tbl.rows[idx][to_canonical(mapper, column)], TRUE)
        ) : mapper \in {mapper_}, tbl \in {tbl_}, bfd_columns \in {bfd_columns_},
            idx \in {idx_}, column \in {column_}, value \in {value_},
            mode \in {mode_}})

\* variant of _update_value whose OVERWRITE branch sees every cell as NaN
_update_value_AlwaysTrue(mapper_, tbl_, bfd_columns_, idx_, column_, value_, mode_) ==
    One({(
        IF to_canonical(mapper, column) \notin bfd_columns THEN UpdateRet(FALSE, FALSE, tbl)
        ELSE IF is_empty(value) THEN UpdateRet(FALSE, FALSE, tbl)
        ELSE IF to_canonical(mapper, column) \notin tbl.cols THEN UpdateRet(TRUE, FALSE, tbl)
        ELSE UpdateCurrent(tbl, idx, to_canonical(mapper, column), value, mode,
                           IF mode = "OVERWRITE" THEN NaNV
                           ELSE tbl.rows[idx][to_canonical(mapper, column)],
                           is_empty(tbl.rows[idx][to_canonical(mapper, column)]))
        ) : mapper \in {mapper_}, tbl \in {tbl_}, bfd_columns \in {bfd_columns_},
            idx \in {idx_}, column \in {column_}, value \in {value_},
            mode \in {mode_}})

\* MetadataMerger._update_value: [raised, ret, bfd].  Reading a column that
\* the frame has lost raises KeyError.
_update_value(mapper_, tbl_, bfd_columns_, idx_, column_, value_, mode_) ==
    One({(
        IF to_canonical(mapper, column) \notin bfd_columns THEN UpdateRet(FALSE, FALSE, tbl)
        ELSE IF is_empty(value) THEN UpdateRet(FALSE, FALSE, tbl)
        ELSE IF to_canonical(mapper, column) \notin tbl.cols THEN UpdateRet(TRUE, FALSE, tbl)
        ELSE UpdateCurrent(tbl, idx, to_canonical(mapper, column), value, mode,
                           tbl.rows[idx][to_canonical(mapper, column)],
                           is_empty(tbl.rows[idx][to_canonical(mapper, column)]))
        ) : mapper \in {mapper_}, tbl \in {tbl_}, bfd_columns \in {bfd_columns_},
            idx \in {idx_}, column \in {column_}, value \in {value_},
            mode \in {mode_}})

\* FreshInIngestionEngine._update_value: no alias translation
Ingest_update_value(tbl_, bfd_columns_, idx_, column_, value_, mode_) ==
    One({(
        IF column \notin bfd_columns THEN UpdateRet(FALSE, FALSE, tbl)
        ELSE IF Ingest_is_empty(value) THEN UpdateRet(FALSE, FALSE, tbl)
        ELSE IF column \notin tbl.cols THEN UpdateRet(TRUE, FALSE, tbl)
        ELSE UpdateCurrent(tbl, idx, column, value, mode, tbl.rows[idx][column],
                           Ingest_is_empty(tbl.rows[idx][column]))
        ) : tbl \in {tbl_}, bfd_columns \in {bfd_columns_}, idx \in {idx_},
            column \in {column_}, value \in {value_}, mode \in {mode_}})

\* --------------------------------------------------------- MetadataMerger
\* str(x) as the merge steps apply it to a field
StrOf(x) ==
    IF x.t = "none" THEN Str(<<"N", "o", "n", "e">>)
    ELSE IF x.t = "nan" THEN Str(<<"n", "a", "n">>)
    ELSE Str(PyStr(x))

\* float(x): [raised, value]; a digit string converts, any other string raises
FloatOf(x) ==
    IF x.t \in {"num", "nan"} THEN [raised |-> FALSE, value |-> x]
    ELSE IF x.t = "str" /\ IsDigit(Strip(x.s))
      THEN [raised |-> FALSE, value |-> Num(ParseInt(Strip(x.s)))]
    ELSE [raised |-> TRUE, value |-> NoneV]

\* a or b
PyOr(a, b) == IF Truthy(a) THEN a ELSE b

\* x[:4] raises TypeError on a number
SliceRaises(x) == Truthy(x) /\ x.t \notin {"str"}

\* the imdb index of load_database: str(imdb_id) of the non-empty cells, the
\* last row with a key wins
ImdbKeys(tbl) ==
    {PyStr(tbl.rows[r]["imdb_id"]) :
        r \in {q \in DOMAIN tbl.rows : ~is_empty(tbl.rows[q]["imdb_id"])}}

BuildImdbIndex(tbl) ==
    IF "imdb_id" \notin tbl.cols THEN <<>>
    ELSE [key \in ImdbKeys(tbl) |->
            CHOOSE r \in DOMAIN tbl.rows :
                /\ ~is_empty(tbl.rows[r]["imdb_id"])
                /\ PyStr(tbl.rows[r]["imdb_id"]) = key
                /\ \A q \in DOMAIN tbl.rows :
                      (~is_empty(tbl.rows[q]["imdb_id"]) /\ PyStr(tbl.rows[q]["imdb_id"]) = key)
                          => q <= r]

TmdbRows(tbl) ==
    {r \in DOMAIN tbl.rows :
        ~is_empty(tbl.rows[r]["tmdb_id"]) /\ TryInt(tbl.rows[r]["tmdb_id"]).ok}

BuildTmdbIndex(tbl) ==
    IF "tmdb_id" \notin tbl.cols THEN <<>>
    ELSE [key \in {TryInt(tbl.rows[r]["tmdb_id"]).n : r \in TmdbRows(tbl)} |->
            CHOOSE r \in TmdbRows(tbl) :
                /\ TryInt(tbl.rows[r]["tmdb_id"]).n = key
                /\ \A q \in TmdbRows(tbl) : TryInt(tbl.rows[q]["tmdb_id"]).n = key => q <= r]

\* one planned call of _update_value inside a merge step; raises marks a
\* conversion of the argument that raises before the call
Write(present, column, value, mode, raises) ==
    [present |-> present, column |-> column, value |-> value, mode |-> mode,
     raises |-> raises]
IsPresent(w) == w.present

RECURSIVE ApplyWrites(_, _, _, _, _, _)
RECURSIVE ApplyNext(_, _, _, _, _, _)
\* the _update_value calls of one record in order: [raised, bfd, n], n the
\* number of calls that returned True
ApplyWrites(mapper_, tbl_, bfd_columns_, idx_, writes_, n_) ==
    One({(
        IF writes = <<>> THEN [raised |-> FALSE, bfd |-> tbl, n |-> n]
        ELSE IF Head(writes).raises THEN [raised |-> TRUE, bfd |-> tbl, n |-> n]
        ELSE ApplyNext(mapper, bfd_columns, idx, Tail(writes), n,
                       _update_value(mapper, tbl, bfd_columns, idx, Head(writes).column,
                                     Head(writes).value, Head(writes).mode))
        ) : mapper \in {mapper_}, tbl \in {tbl_}, bfd_columns \in {bfd_columns_},
            idx \in {idx_}, writes \in {writes_}, n \in {n_}})
ApplyNext(mapper_, bfd_columns_, idx_, rest_, n_, r_) ==
    One({(
        IF r.raised THEN [raised |-> TRUE, bfd |-> r.bfd, n |-> n]
        ELSE ApplyWrites(mapper, r.bfd, bfd_columns, idx, rest, IF r.ret THEN n + 1 ELSE n)
        ) : mapper \in {mapper_}, bfd_columns \in {bfd_columns_}, idx \in {idx_},
            rest \in {rest_}, n \in {n_}, r \in {r_}})

\* the accumulator of a merge loop
Acc(raised, tbl, updates, values, new_titles) ==
    [raised |-> raised, bfd |-> tbl, updates |-> updates, values |-> values,
     new_titles |-> new_titles]

\* the end of one loop iteration: the counters, and the slice that builds the
\* year for the title log when the record was updated
AfterRecord(acc_, w_, post_raises_) ==
    One({(
        IF w.raised THEN Acc(TRUE, w.bfd, acc.updates, acc.values, acc.new_titles)
        ELSE IF w.n > 0
          THEN Acc(post_raises, w.bfd, acc.updates + 1, acc.values + w.n, acc.new_titles)
        ELSE Acc(FALSE, w.bfd, acc.updates, acc.values, acc.new_titles)
        ) : acc \in {acc_}, w \in {w_}, post_raises \in {post_raises_}})

\* merge_tmdb: the _update_value calls for one matched item
TmdbWrites(item_) ==
    One({(
        SelectSeq(
            <<Write(DGet(item, "popularity") # NoneV, "tmdb_popularity",
                    FloatOf(DGet(item, "popularity")).value, "OVERWRITE",
                    FloatOf(DGet(item, "popularity")).raised),
              Write(DGet(item, "vote_average") # NoneV, "tmdb_score",
                    FloatOf(DGet(item, "vote_average")).value, "OVERWRITE",
                    FloatOf(DGet(item, "vote_average")).raised),
              Write(Truthy(PyOr(DGet(item, "release_date"), DGet(item, "first_air_date"))),
                    "premiere_date",
                    StrOf(PyOr(DGet(item, "release_date"), DGet(item, "first_air_date"))),
                    "MERGE", FALSE),
              Write(Truthy(DGet(item, "original_language")), "original_language",
                    StrOf(DGet(item, "original_language")), "MERGE", FALSE),
              Write(Truthy(DGet(item, "overview")), "overview",
                    StrOf(DGet(item, "overview")), "MERGE", FALSE)>>,
            IsPresent)
        ) : item \in {item_}})

\* merge_tmdb: one iteration of the loop
TmdbItem(mapper_, bfd_columns_, tmdb_index_, item_, acc_) ==
    One({(
        IF ~Truthy(DGet(item, "id")) THEN acc
        ELSE IF ~TryInt(DGet(item, "id")).ok THEN acc
        ELSE IF TryInt(DGet(item, "id")).n \notin DOMAIN tmdb_index
          THEN [acc EXCEPT !.new_titles = @ + 1]
        ELSE AfterRecord(acc,
                 ApplyWrites(mapper, acc.bfd, bfd_columns,
                             tmdb_index[TryInt(DGet(item, "id")).n], TmdbWrites(item), 0),
                 SliceRaises(PyOr(DGet(item, "release_date"), DGet(item, "first_air_date"))))
        ) : mapper \in {mapper_}, bfd_columns \in {bfd_columns_}, tmdb_index \in {tmdb_index_},
            item \in {item_}, acc \in {acc_}})

RECURSIVE TmdbLoop(_, _, _, _, _)
TmdbLoop(mapper_, bfd_columns_, tmdb_index_, data_, acc_) ==
    One({(
        IF data = <<>> \/ acc.raised THEN acc
        ELSE TmdbLoop(mapper, bfd_columns, tmdb_index, Tail(data),
                      TmdbItem(mapper, bfd_columns, tmdb_index, Head(data), acc))
        ) : mapper \in {mapper_}, bfd_columns \in {bfd_columns_}, tmdb_index \in {tmdb_index_},
            data \in {data_}, acc \in {acc_}})

\* the stats after a merge loop: the counters of a loop that raised are lost,
\* new_titles_found is counted inside the loop
StatsAfter(st_, source_, acc_) ==
    One({(
        IF acc.raised THEN [st EXCEPT !.new_titles_found = @ + acc.new_titles]
        ELSE [st EXCEPT
                !.new_titles_found = @ + acc.new_titles,
                !.updates_by_source =
                    [src \in DOMAIN @ \cup {source} |->
                        IF src = source THEN [records |-> acc.updates, values |-> acc.values]
                        ELSE @[src]],
                !.records_updated = @ + acc.updates,
                !.values_updated = @ + acc.values]
        ) : st \in {st_}, source \in {source_}, acc \in {acc_}})

MergeOutcome(st_, source_, acc_) ==
    One({(
        [raised |-> acc.raised, bfd |-> acc.bfd, stats |-> StatsAfter(st, source, acc)]
        ) : st \in {st_}, source \in {source_}, acc \in {acc_}})

\* merge_tmdb(data): [raised, bfd, stats]
merge_tmdb(mapper_, tbl_, bfd_columns_, tmdb_index_, st_, data_) ==
    One({(
        MergeOutcome(st, "tmdb",
                     TmdbLoop(mapper, bfd_columns, tmdb_index, data, Acc(FALSE, tbl, 0, 0, 0)))
        ) : mapper \in {mapper_}, tbl \in {tbl_}, bfd_columns \in {bfd_columns_},
            tmdb_index \in {tmdb_index_}, st \in {st_}, data \in {data_}})

\* merge_flixpatrol: the row of an item, 0 for no match: the IMDb id first,
\* then the fallback to the TMDB id
FlixImdbIdx(imdb_index_, item_) ==
    One({(
        IF Truthy(DGet(item, "imdbId"))
           /\ Truthy(normalize_imdb_id(DGet(item, "imdbId")))
           /\ normalize_imdb_id(DGet(item, "imdbId")).s \in DOMAIN imdb_index
        THEN imdb_index[normalize_imdb_id(DGet(item, "imdbId")).s]
        ELSE 0
        ) : imdb_index \in {imdb_index_}, item \in {item_}})

FlixTmdbIdx(tmdb_index_, item_) ==
    One({(
        IF Truthy(DGet(item, "tmdbId"))
           /\ TryInt(DGet(item, "tmdbId")).ok
           /\ TryInt(DGet(item, "tmdbId")).n \in DOMAIN tmdb_index
        THEN tmdb_index[TryInt(DGet(item, "tmdbId")).n]
        ELSE 0
        ) : tmdb_index \in {tmdb_index_}, item \in {item_}})

FlixIdx(imdb_index_, tmdb_index_, item_) ==
    One({(
        IF FlixImdbIdx(imdb_index, item) # 0 THEN FlixImdbIdx(imdb_index, item)
        ELSE FlixTmdbIdx(tmdb_index, item)
        ) : imdb_index \in {imdb_index_}, tmdb_index \in {tmdb_index_}, item \in {item_}})

\* variant of FlixWrites that only fills an empty flixpatrol_id
FlixWrites_MergeId(bfd_columns_, item_) ==
    One({(
        SelectSeq(
            <<Write(TRUE, "flixpatrol_id", DGet(item, "id"), "MERGE", FALSE),
              Write(TRUE, "flixpatrol_points", DGet(item, "points"), "OVERWRITE", FALSE),
              Write(TRUE, "flixpatrol_rank", DGet(item, "rank"), "OVERWRITE", FALSE),
              Write(TRUE, "premiere_date", DGet(item, "premiere"), "MERGE", FALSE),
              Write(TRUE, "runtime_minutes", DGet(item, "length"), "MERGE", FALSE),
              Write(TRUE, "budget", DGet(item, "budget"), "MERGE", FALSE),
              Write(Truthy(DGet(item, "description")) /\ "tagline" \in bfd_columns,
                    "tagline", DGet(item, "description"), "MERGE", FALSE),
              Write(Truthy(DGet(item, "description")) /\ "tagline" \notin bfd_columns
                        /\ "overview" \in bfd_columns,
                    "overview", DGet(item, "description"), "MERGE", FALSE)>>,
            IsPresent)
        ) : bfd_columns \in {bfd_columns_}, item \in {item_}})

\* merge_flixpatrol: the _update_value calls for one matched item
FlixWrites(bfd_columns_, item_) ==
    One({(
        SelectSeq(
            <<Write(TRUE, "flixpatrol_id", DGet(item, "id"), "OVERWRITE", FALSE),
              Write(TRUE, "flixpatrol_points", DGet(item, "points"), "OVERWRITE", FALSE),
              Write(TRUE, "flixpatrol_rank", DGet(item, "rank"), "OVERWRITE", FALSE),
              Write(TRUE, "premiere_date", DGet(item, "premiere"), "MERGE", FALSE),
              Write(TRUE, "runtime_minutes", DGet(item, "length"), "MERGE", FALSE),
              Write(TRUE, "budget", DGet(item, "budget"), "MERGE", FALSE),
              Write(Truthy(DGet(item, "description")) /\ "tagline" \in bfd_columns,
                    "tagline", DGet(item, "description"), "MERGE", FALSE),
              Write(Truthy(DGet(item, "description")) /\ "tagline" \notin bfd_columns
                        /\ "overview" \in bfd_columns,
                    "overview", DGet(item, "description"), "MERGE", FALSE)>>,
            IsPresent)
        ) : bfd_columns \in {bfd_columns_}, item \in {item_}})

FlixItemAt(mapper_, bfd_columns_, idx_, item_, acc_) ==
    One({(
        IF idx = 0 THEN [acc EXCEPT !.new_titles = @ + 1]
        ELSE AfterRecord(acc,
                 ApplyWrites(mapper, acc.bfd, bfd_columns, idx, FlixWrites(bfd_columns, item), 0),
                 SliceRaises(DGet(item, "premiere")))
        ) : mapper \in {mapper_}, bfd_columns \in {bfd_columns_}, idx \in {idx_},
            item \in {item_}, acc \in {acc_}})

RECURSIVE FlixLoop(_, _, _, _, _, _)
FlixLoop(mapper_, bfd_columns_, imdb_index_, tmdb_index_, data_, acc_) ==
    One({(
        IF data = <<>> \/ acc.raised THEN acc
        ELSE FlixLoop(mapper, bfd_columns, imdb_index, tmdb_index, Tail(data),
                      FlixItemAt(mapper, bfd_columns, FlixIdx(imdb_index, tmdb_index, Head(data)),
                                 Head(data), acc))
        ) : mapper \in {mapper_}, bfd_columns \in {bfd_columns_}, imdb_index \in {imdb_index_},
            tmdb_index \in {tmdb_index_}, data \in {data_}, acc \in {acc_}})

\* merge_flixpatrol(data): [raised, bfd, stats]
merge_flixpatrol(mapper_, tbl_, bfd_columns_, imdb_index_, tmdb_index_, st_, data_) ==
    One({(
        MergeOutcome(st, "flixpatrol",
                     FlixLoop(mapper, bfd_columns, imdb_index, tmdb_index, data,
                              Acc(FALSE, tbl, 0, 0, 0)))
        ) : mapper \in {mapper_}, tbl \in {tbl_}, bfd_columns \in {bfd_columns_},
            imdb_index \in {imdb_index_}, tmdb_index \in {tmdb_index_}, st \in {st_},
            data \in {data_}})

\* merge_disney_plus: the _update_value calls for one matched item (the items
\* used carry no genres list)
DisneyWrites(item_) ==
    One({(
        <<Write(TRUE, "imdb_score", DGet(item, "imdb_score"), "MERGE", FALSE),
          Write(TRUE, "imdb_vote_count", DGet(item, "imdb_votes"), "MERGE", FALSE),
          Write(TRUE, "tmdb_score", DGet(item, "tmdb_score"), "MERGE", FALSE),
          Write(TRUE, "tmdb_popularity", DGet(item, "tmdb_popularity"), "MERGE", FALSE),
          Write(TRUE, "age_certification", DGet(item, "age_certification"), "MERGE", FALSE),
          Write(TRUE, "runtime_minutes", DGet(item, "runtime"), "MERGE", FALSE),
          Write(TRUE, "streaming_platform_us", Str(<<"D", "i", "s", "n", "e", "y", "+">>),
                "MERGE", FALSE)>>
        ) : item \in {item_}})

\* merge_disney_plus: one iteration; an unmatched item is passed over uncounted
DisneyItemAt(mapper_, bfd_columns_, imdb_index_, imdb_id_, item_, acc_) ==
    One({(
        IF ~Truthy(imdb_id) THEN acc
        ELSE IF imdb_id.s \notin DOMAIN imdb_index THEN acc
        ELSE AfterRecord(acc,
                 ApplyWrites(mapper, acc.bfd, bfd_columns, imdb_index[imdb_id.s],
                             DisneyWrites(item), 0),
                 FALSE)
        ) : mapper \in {mapper_}, bfd_columns \in {bfd_columns_}, imdb_index \in {imdb_index_},
            imdb_id \in {imdb_id_}, item \in {item_}, acc \in {acc_}})

RECURSIVE DisneyLoop(_, _, _, _, _)
DisneyLoop(mapper_, bfd_columns_, imdb_index_, data_, acc_) ==
    One({(
        IF data = <<>> \/ acc.raised THEN acc
        ELSE DisneyLoop(mapper, bfd_columns, imdb_index, Tail(data),
                        DisneyItemAt(mapper, bfd_columns, imdb_index,
                                     normalize_imdb_id(DGet(Head(data), "imdb_id")),
                                     Head(data), acc))
        ) : mapper \in {mapper_}, bfd_columns \in {bfd_columns_}, imdb_index \in {imdb_index_},
            data \in {data_}, acc \in {acc_}})

\* merge_disney_plus(data): [raised, bfd, stats]
merge_disney_plus(mapper_, tbl_, bfd_columns_, imdb_index_, st_, data_) ==
    One({(
        MergeOutcome(st, "disney_plus",
                     DisneyLoop(mapper, bfd_columns, imdb_index, data, Acc(FALSE, tbl, 0, 0, 0)))
        ) : mapper \in {mapper_}, tbl \in {tbl_}, bfd_columns \in {bfd_columns_},
            imdb_index \in {imdb_index_}, st \in {st_}, data \in {data_}})

\* the schema test of save_database and of save: columns of the frame that the
\* captured set does not have
NewColumns(tbl, bfd_columns) == tbl.cols \ bfd_columns

\* variant of save_database that does not look at the columns
save_database_NoGuard(tbl_, bfd_columns_, st_, disk_) ==
    One({(
        [ret |-> TRUE, disk |-> tbl, stats |-> st, wrote |-> TRUE]
        ) : tbl \in {tbl_}, bfd_columns \in {bfd_columns_}, st \in {st_}, disk \in {disk_}})

\* MetadataMerger.save_database: [ret, disk, stats, wrote]
save_database(tbl_, bfd_columns_, st_, disk_) ==
    One({(
        IF NewColumns(tbl, bfd_columns) # {}
        THEN [ret |-> FALSE, disk |-> disk, wrote |-> FALSE,
              stats |-> [st EXCEPT !.errors = Append(@, [kind |-> "unauthorized_columns",
                                                         columns |-> NewColumns(tbl, bfd_columns)])]]
        ELSE [ret |-> TRUE, disk |-> tbl, stats |-> st, wrote |-> TRUE]
        ) : tbl \in {tbl_}, bfd_columns \in {bfd_columns_}, st \in {st_}, disk \in {disk_}})

\* FreshInIngestionEngine.save: the same test; the failure is printed, no
\* error list is touched
Ingest_save(tbl_, bfd_columns_, st_, disk_) ==
    One({(
        IF NewColumns(tbl, bfd_columns) # {}
        THEN [ret |-> FALSE, disk |-> disk, stats |-> st, wrote |-> FALSE]
        ELSE [ret |-> TRUE, disk |-> tbl, stats |-> st, wrote |-> TRUE]
        ) : tbl \in {tbl_}, bfd_columns \in {bfd_columns_}, st \in {st_}, disk \in {disk_}})

\* MetadataMerger.generate_report
generate_report(st_) ==
    One({(
        [kind |-> "merge",
         statistics |-> [records_updated |-> st.records_updated,
                         values_updated |-> st.values_updated,
                         new_titles_not_in_db |-> st.new_titles_found],
         updates_by_source |-> st.updates_by_source,
         errors |-> st.errors]
        ) : st \in {st_}})

\* the report run_merge builds in its except clause
ErrorReport ==
    [kind |-> "error", statistics |-> [records_updated |-> 0, values_updated |-> 0]]

\* MetadataMerger.__init__: stats
MergerStats ==
    [records_updated |-> 0, values_updated |-> 0, new_titles_found |-> 0,
     updates_by_source |-> <<>>, errors |-> <<>>]

\* ------------------------------------------------------------------ state
VARIABLES
    prog,              \* which program this behaviour runs: "engine" or "merger"
    files,             \* the FreshIn directory: file id -> file
    disk_state,        \* freshin_engine_state.json: processed files, last_run
    disk_master,       \* platform_availability_current.json
    reports,           \* the audit reports saved so far
    run,               \* number of engine runs started
    pc,                \* position in VDBFreshInEngine.run
    dry_run,           \* VDBFreshInEngine.dry_run
    processed_files,   \* VDBFreshInEngine.processed_files
    discovered_files,  \* VDBFreshInEngine.discovered_files
    all_decisions,     \* VDBFreshInEngine.all_decisions
    stats,             \* VDBFreshInEngine.stats
    fi,                \* index of the current file in discovered_files
    bi,                \* index of the next batch of the current file
    decisions,         \* the local list of _process_json
    hist,              \* history: what this run loaded, attempted and executed
    variant,           \* "merger" (MetadataMerger) or "ingest" (FreshInIngestionEngine)
    m_mode,            \* "run_merge": the pipeline; "calls": methods called one by one
    mapper,            \* ColumnMapper: translation_map, canonical_columns
    source_data,       \* FreshInLoader.load_all_sources(): records by source
    disk_bfd,          \* the parquet file of the table; None when it does not exist
    bfd,               \* self.bfd
    bfd_columns,       \* self.bfd_columns
    imdb_index,        \* self.imdb_index
    tmdb_index,        \* self.tmdb_index
    m_stats,           \* self.stats
    m_pc,              \* position in run_merge / in the sequence of calls
    merged,            \* the sources merged so far, in order
    ncalls,            \* number of direct _update_value calls made
    last_call,         \* the _update_value call the last step made, if it made one
    ow_last,           \* history: cell -> last non-empty value of an OVERWRITE call to it
    m_report,          \* the report run_merge returns
    success,           \* run_merge's success flag / the value the save returned
    mhist,             \* history: the file at the start, whether the save wrote
    u_op,              \* the function a direct call applied, "off" outside such calls
    u_in,              \* the arguments of that call
    u_out              \* what the call returned

evars == <<files, disk_state, disk_master, reports, run, pc, dry_run, processed_files,
           discovered_files, all_decisions, stats, fi, bi, decisions, hist>>

mvars == <<variant, m_mode, mapper, source_data, disk_bfd, bfd, bfd_columns, imdb_index,
           tmdb_index, m_stats, m_pc, merged, ncalls, last_call, ow_last, m_report, success,
           mhist>>

uvars == <<u_op, u_in, u_out>>

vars == <<prog, evars, mvars, uvars>>

\* variant of discover_fresh_files that forgets the processed-file filter
discover_fresh_files_NoFilter(date_filter, processed) ==
    LET found == {f \in FileIds : MatchesPattern(files[f])}
        dated == IF date_filter # "all" THEN {f \in found : files[f].date = date_filter}
                 ELSE found
    IN SelectSeqIdx(dated, <<>>)

\* discover_fresh_files: glob, date filter, not yet processed, newest first
\* (a file's id stands for its name and its modification time)
discover_fresh_files(date_filter, processed) ==
    LET found == {f \in FileIds : MatchesPattern(files[f])}
        dated == IF date_filter # "all" THEN {f \in found : files[f].date = date_filter}
                 ELSE found
        fresh == {f \in dated : f \notin processed}
    IN SelectSeqIdx(fresh, <<>>)

EmptyHist ==
    [loaded |-> {}, attempted |-> {}, executed |-> [f \in FileIds |-> 0],
     disk_state0 |-> [processed_files |-> {}, last_run |-> 0],
     disk_master0 |-> <<>>, mr_src |-> <<>>, persisted |-> FALSE, classified |-> {}]

NoCall == [mode |-> "none"]
EmptyMHist ==
    [disk0 |-> NoneV, saved |-> FALSE, wrote |-> FALSE, tampered |-> "no", cols0 |-> {}]

\* no function is called on its own in an engine or merger run
UnitsOff ==
    /\ u_op = "off"
    /\ u_in = <<>>
    /\ u_out = <<>>

\* the merger is not part of an engine run
MergerOff ==
    /\ variant = "merger"
    /\ m_mode = "off"
    /\ mapper = [translation_map |-> <<>>, canonical_columns |-> {}]
    /\ source_data = [tmdb |-> <<>>, disney_plus |-> <<>>, flixpatrol |-> <<>>]
    /\ disk_bfd = NoneV
    /\ bfd = NoneV
    /\ bfd_columns = {}
    /\ imdb_index = <<>>
    /\ tmdb_index = <<>>
    /\ m_stats = MergerStats
    /\ m_pc = "off"
    /\ merged = <<>>
    /\ ncalls = 0
    /\ last_call = NoCall
    /\ ow_last = <<>>
    /\ m_report = NoneV
    /\ success = FALSE
    /\ mhist = EmptyMHist

InitEngine ==
    /\ prog = "engine"
    /\ MergerOff
    /\ UnitsOff
    /\ files \in [FileIds -> FilePool]
    /\ disk_state = [processed_files |-> {}, last_run |-> 0]
    /\ disk_master = <<>>
    /\ reports = <<>>
    /\ run = 0
    /\ pc = "idle"
    /\ dry_run = FALSE
    /\ processed_files = {}
    /\ discovered_files = <<>>
    /\ all_decisions = <<>>
    /\ stats = ZeroStats
    /\ fi = 1
    /\ bi = 1
    /\ decisions = <<>>
    /\ hist = EmptyHist

CurFile == discovered_files[fi]

\* main() -> VDBFreshInEngine(dry_run) (with _load_state) -> run(): up to the
\* early return test
StartRun(dry, date_arg) ==
    /\ prog = "engine"
    /\ pc = "idle"
    /\ run < MaxRuns
    /\ run' = run + 1
    /\ dry_run' = dry
    /\ processed_files' = disk_state.processed_files
    /\ stats' = ZeroStats
    /\ all_decisions' = <<>>
    /\ decisions' = <<>>
    /\ discovered_files' = discover_fresh_files(date_arg, disk_state.processed_files)
    /\ fi' = 1
    /\ bi' = 1
    /\ pc' = IF discovered_files' = <<>> THEN "report_empty" ELSE "file"
    /\ hist' = [EmptyHist EXCEPT !.loaded = disk_state.processed_files,
                                 !.disk_state0 = disk_state,
                                 !.disk_master0 = disk_master,
                                 !.classified = hist.classified]
    /\ UNCHANGED <<prog, uvars, mvars, files, disk_state, disk_master, reports>>

\* variant of OpenFile that marks the file processed as soon as it is parsed
OpenFile_MarksEarly ==
    /\ pc = "file"
    /\ fi <= Len(discovered_files)
    /\ files[CurFile].parse_ok
    /\ pc' = "batch"
    /\ bi' = 1
    /\ decisions' = <<>>
    /\ processed_files' = processed_files \cup {CurFile}
    /\ hist' = [hist EXCEPT !.attempted = @ \cup {CurFile}]
    /\ UNCHANGED <<prog, uvars, mvars, files, disk_state, disk_master, reports, run, dry_run,
                   discovered_files, all_decisions, stats, fi>>

\* process_file: json.load / read_parquet succeeds
OpenFile ==
    /\ pc = "file"
    /\ fi <= Len(discovered_files)
    /\ files[CurFile].parse_ok
    /\ pc' = "batch"
    /\ bi' = 1
    /\ decisions' = <<>>
    /\ hist' = [hist EXCEPT !.attempted = @ \cup {CurFile}]
    /\ UNCHANGED <<prog, uvars, mvars, files, disk_state, disk_master, reports, run, dry_run,
                   processed_files, discovered_files, all_decisions, stats, fi>>

\* variant of ParseError in which the exception leaves the file loop
ParseError_Aborts ==
    /\ pc = "file"
    /\ fi <= Len(discovered_files)
    /\ ~files[CurFile].parse_ok
    /\ stats' = [stats EXCEPT !.errors = Append(@, [file |-> CurFile, kind |-> "parse"])]
    /\ fi' = Len(discovered_files) + 1
    /\ hist' = [hist EXCEPT !.attempted = @ \cup {CurFile}]
    /\ UNCHANGED <<prog, uvars, mvars, files, disk_state, disk_master, reports, run, pc, dry_run,
                   processed_files, discovered_files, all_decisions, bi, decisions>>

\* process_file: json.load / read_parquet raises; the except clause records it
ParseError ==
    /\ pc = "file"
    /\ fi <= Len(discovered_files)
    /\ ~files[CurFile].parse_ok
    /\ stats' = [stats EXCEPT !.errors = Append(@, [file |-> CurFile, kind |-> "parse"])]
    /\ fi' = fi + 1
    /\ hist' = [hist EXCEPT !.attempted = @ \cup {CurFile}]
    /\ UNCHANGED <<prog, uvars, mvars, files, disk_state, disk_master, reports, run, pc, dry_run,
                   processed_files, discovered_files, all_decisions, bi, decisions>>

CurBatch == Batches(files[CurFile])[bi]

\* what running the current batch gives: [raised, stats, master, decision]
BatchOutcome ==
    IF CurBatch.bad
    THEN [raised |-> TRUE, stats |-> stats, master |-> disk_master, decision |-> NoneV]
    ELSE IF files[CurFile].suffix = "parquet"
    THEN Executed(stats, disk_master, route("title_metadata", CurFile, files[CurFile].rows, ""),
                  PList(<<>>), dry_run)
    ELSE _route_batch(stats, disk_master, CurBatch.source, CurBatch.type, CurBatch.data,
                      CurFile, dry_run)

\* history: the batch that detect classified in this iteration, where it stood
\* in the run, what the engine had counted and marked by then, and the result
Classification(decision) ==
    IF files[CurFile].suffix # "json" THEN {}
    ELSE {[source |-> CurBatch.source, batch_type |-> CurBatch.type,
           keys |-> IF IsDict(CurBatch.data) THEN Keys(CurBatch.data) ELSE {},
           run |-> run, file |-> CurFile, pos |-> bi,
           skipped_before |-> stats.skipped, marked_before |-> processed_files,
           data_type |-> decision.data_type, skip_reason |-> decision.skip_reason]}

\* one iteration of the batch loop: _route_batch returns
ExecBatch ==
    /\ pc = "batch"
    /\ bi <= Len(Batches(files[CurFile]))
    /\ \E o \in {BatchOutcome} :
        /\ ~o.raised
        /\ stats' = o.stats
        /\ disk_master' = o.master
        /\ decisions' = Append(decisions, o.decision)
        /\ hist' = [hist EXCEPT
                      !.executed[CurFile] = @ + 1,
                      !.mr_src = AppendN(@, CurFile,
                                         Len(o.stats.merge_results) - Len(stats.merge_results)),
                      !.classified = @ \cup Classification(o.decision)]
    /\ bi' = bi + 1
    /\ UNCHANGED <<prog, uvars, mvars, files, disk_state, reports, run, pc, dry_run, processed_files,
                   discovered_files, all_decisions, fi>>

\* one iteration of the batch loop raises: process_file's except clause records
\* the error and returns its own empty decisions list
BatchError ==
    /\ pc = "batch"
    /\ bi <= Len(Batches(files[CurFile]))
    /\ BatchOutcome.raised
    /\ stats' = [stats EXCEPT !.errors = Append(@, [file |-> CurFile, kind |-> "batch"])]
    /\ decisions' = <<>>
    /\ pc' = "file"
    /\ fi' = fi + 1
    /\ UNCHANGED <<prog, uvars, mvars, files, disk_state, disk_master, reports, run, dry_run,
                   processed_files, discovered_files, all_decisions, bi, hist>>

\* _process_json / _process_parquet returned: mark the file processed
CloseFile ==
    /\ pc = "batch"
    /\ bi > Len(Batches(files[CurFile]))
    /\ processed_files' = processed_files \cup {CurFile}
    /\ stats' = [stats EXCEPT !.files_processed = @ + 1]
    /\ all_decisions' = all_decisions \o decisions
    /\ pc' = "file"
    /\ fi' = fi + 1
    /\ UNCHANGED <<prog, uvars, mvars, files, disk_state, disk_master, reports, run, dry_run,
                   discovered_files, bi, decisions, hist>>

\* variant of SaveState that leaves the state file as it was
SaveState_NoWrite ==
    /\ pc = "file"
    /\ fi > Len(discovered_files)
    /\ pc' = "report"
    /\ UNCHANGED <<prog, uvars, mvars, files, disk_state, disk_master, reports, run, dry_run,
                   processed_files, discovered_files, all_decisions, stats, fi, bi, decisions,
                   hist>>

\* _save_state, after the file loop
SaveState ==
    /\ pc = "file"
    /\ fi > Len(discovered_files)
    /\ disk_state' = [processed_files |-> processed_files, last_run |-> run]
    /\ pc' = "report"
    /\ hist' = [hist EXCEPT !.persisted = TRUE]
    /\ UNCHANGED <<prog, uvars, mvars, files, disk_master, reports, run, dry_run, processed_files,
                   discovered_files, all_decisions, stats, fi, bi, decisions>>

\* variant of EmitReport whose generate empties the decisions it has read
EmitReport_ConsumesDecisions ==
    /\ pc = "report"
    /\ reports' = Append(reports, generate(run, stats, dry_run, discovered_files, all_decisions))
    /\ all_decisions' = <<>>
    /\ pc' = "idle"
    /\ UNCHANGED <<prog, uvars, mvars, files, disk_state, disk_master, run, dry_run, processed_files,
                   discovered_files, stats, fi, bi, decisions, hist>>

\* generate + save_report at the end of run
EmitReport ==
    /\ pc = "report"
    /\ reports' = Append(reports, generate(run, stats, dry_run, discovered_files, all_decisions))
    /\ pc' = "idle"
    /\ UNCHANGED <<prog, uvars, mvars, files, disk_state, disk_master, run, dry_run, processed_files,
                   discovered_files, all_decisions, stats, fi, bi, decisions, hist>>

\* the early return of run: no files, report over no decisions, no _save_state
EmitReportEmpty ==
    /\ pc = "report_empty"
    /\ reports' = Append(reports, generate(run, stats, dry_run, discovered_files, <<>>))
    /\ pc' = "idle"
    /\ UNCHANGED <<prog, uvars, mvars, files, disk_state, disk_master, run, dry_run, processed_files,
                   discovered_files, all_decisions, stats, fi, bi, decisions, hist>>

\* AuditReportGenerator.generate called once more on the engine after run()
\* has returned, with the engine's decisions
GenerateAgain ==
    /\ prog = "engine"
    /\ pc = "idle"
    /\ run > 0
    /\ u_op = "off"
    /\ u_op' = "generate"
    /\ u_in' = [run |-> run, all_decisions |-> all_decisions]
    /\ u_out' = generate(run, stats, dry_run, discovered_files, all_decisions)
    /\ UNCHANGED <<prog, evars, mvars>>

NextEngine ==
    \/ \E dry \in BOOLEAN, date_arg \in DateArgs : StartRun(dry, date_arg)
    \/ OpenFile
    \/ ParseError
    \/ ExecBatch
    \/ BatchError
    \/ CloseFile
    \/ SaveState
    \/ EmitReport
    \/ EmitReportEmpty
    \/ GenerateAgain

SpecEngine == InitEngine /\ [][NextEngine]_vars

\* ------------------------------------------------------- merger: inputs
TT1 == <<"t", "t", "0", "0", "0", "0", "0", "0", "1">>
TableCols == {"imdb_id", "tmdb_id", "premiere_date", "flixpatrol_id", "tmdb_score"}
TableRow(imdb, tmdb, premiere, fp, score) ==
    [imdb_id |-> imdb, tmdb_id |-> tmdb, premiere_date |-> premiere,
     flixpatrol_id |-> fp, tmdb_score |-> score]

\* the tables a run can find on disk
TablePool ==
    {[cols |-> TableCols,
      rows |-> <<TableRow(Str(TT1), Num(11), NaNV, NaNV, NaNV),
                 TableRow(NaNV, Num(12), Str(<<"Y">>), NoneV, Num(6))>>],
     [cols |-> TableCols,
      rows |-> <<TableRow(Str(TT1), Str(<<"1", "1">>), Str(<<" ", "N", "/", "A">>), Num(3), Num(7)),
                 TableRow(Str(<<"t", "t", "2">>), NaNV, NoneV, NaNV, NaNV)>>]}

\* the guides ColumnMapper.load_mappings can find: none, or one with an alias
MapperPool ==
    {[translation_map |-> <<>>, canonical_columns |-> {}],
     [translation_map |-> [premiere |-> "premiere_date"],
      canonical_columns |-> {"premiere_date"}]}

Sources(tmdb, disney, flix) == [tmdb |-> tmdb, disney_plus |-> disney, flixpatrol |-> flix]

\* clean records of the three sources, sharing columns
CleanData ==
    Sources(<<[id |-> Num(11), vote_average |-> Num(8), release_date |-> Str(<<"X">>)],
              [id |-> Num(99)]>>,
            <<[imdb_id |-> Str(TT1), tmdb_score |-> Num(5)]>>,
            <<[id |-> Num(42), imdbId |-> Num(1), premiere |-> Str(<<"Z">>)]>>)
\* a TMDB item whose popularity float() rejects, after one that updates a row
BadTmdbData ==
    Sources(<<[id |-> Num(12), vote_average |-> Num(8)],
              [id |-> Num(11), popularity |-> Str(<<"x">>)]>>,
            <<>>, <<>>)
\* a FlixPatrol item whose premiere is a number: the year slice raises
BadFlixData ==
    Sources(<<>>, <<>>,
            <<[id |-> Num(42), tmdbId |-> Str(<<"1", "2">>), premiere |-> Num(2020)]>>)
NoData == Sources(<<>>, <<>>, <<>>)
\* a TMDB item whose release_date is a sentinel, so that FlixPatrol is the
\* first source with a premiere date
SentinelReleaseData ==
    Sources(<<[id |-> Num(11), vote_average |-> Num(8),
               release_date |-> Str(<<"N", "/", "A">>)]>>,
            <<[imdb_id |-> Str(TT1), tmdb_score |-> Num(5)]>>,
            <<[id |-> Num(42), imdbId |-> Num(1), premiere |-> Str(<<"Z">>)]>>)

SourcePool == {CleanData, BadTmdbData, BadFlixData, NoData, SentinelReleaseData}

\* the arguments of the direct _update_value calls
CallColumns == {"premiere_date", "premiere", "budget"}
CallValues ==
    {NoneV, Str(<<" ", "N", "/", "A", " ">>),
     Str(<<"u", "n", "d", "e", "f", "i", "n", "e", "d">>),
     Str(<<"X">>), Num(7)}
Modes == {"MERGE", "OVERWRITE"}

\* the engine is not part of a merger run
EngineOff ==
    /\ files = [f \in FileIds |-> ParquetFile("cranberry_fresh", "today", TRUE, 3)]
    /\ disk_state = [processed_files |-> {}, last_run |-> 0]
    /\ disk_master = <<>>
    /\ reports = <<>>
    /\ run = 0
    /\ pc = "idle"
    /\ dry_run = FALSE
    /\ processed_files = {}
    /\ discovered_files = <<>>
    /\ all_decisions = <<>>
    /\ stats = ZeroStats
    /\ fi = 1
    /\ bi = 1
    /\ decisions = <<>>
    /\ hist = EmptyHist

\* the objects before load_database / load_bfd
MergerFresh ==
    /\ prog = "merger"
    /\ EngineOff
    /\ UnitsOff
    /\ bfd = NoneV
    /\ bfd_columns = {}
    /\ imdb_index = <<>>
    /\ tmdb_index = <<>>
    /\ m_stats = MergerStats
    /\ m_pc = "init"
    /\ merged = <<>>
    /\ ncalls = 0
    /\ last_call = NoCall
    /\ ow_last = <<>>
    /\ m_report = NoneV
    /\ success = FALSE
    /\ mhist = [EmptyMHist EXCEPT !.disk0 = disk_bfd]

\* run_merge() over some guides, some source files and some table file
InitPipeline ==
    /\ variant = "merger"
    /\ m_mode = "run_merge"
    /\ mapper \in MapperPool
    /\ source_data \in SourcePool
    /\ disk_bfd \in TablePool \cup {NoneV}
    /\ MergerFresh

\* a MetadataMerger or a FreshInIngestionEngine whose methods are called one
\* by one
InitCalls ==
    /\ m_mode = "calls"
    /\ \/ variant = "merger" /\ mapper \in MapperPool /\ source_data = CleanData
       \/ /\ variant = "ingest"
          /\ mapper = [translation_map |-> <<>>, canonical_columns |-> {}]
          /\ source_data = NoData
    /\ disk_bfd \in TablePool
    /\ MergerFresh

InitMerger == InitPipeline \/ InitCalls

\* ------------------------------------------------------- merger: actions
\* load_bfd of the ingestion engine indexes the normalized identifiers
Ingest_BuildImdbIndex(tbl) ==
    [key \in {Ingest_normalize_imdb_id(tbl.rows[r]["imdb_id"]).s :
                r \in {q \in DOMAIN tbl.rows :
                         Truthy(Ingest_normalize_imdb_id(tbl.rows[q]["imdb_id"]))}} |->
        CHOOSE r \in DOMAIN tbl.rows :
            /\ Truthy(Ingest_normalize_imdb_id(tbl.rows[r]["imdb_id"]))
            /\ Ingest_normalize_imdb_id(tbl.rows[r]["imdb_id"]).s = key
            /\ \A q \in DOMAIN tbl.rows :
                  (Truthy(Ingest_normalize_imdb_id(tbl.rows[q]["imdb_id"]))
                   /\ Ingest_normalize_imdb_id(tbl.rows[q]["imdb_id"]).s = key) => q <= r]

\* MetadataMerger.load_database: the file exists
LoadDatabase ==
    /\ prog = "merger"
    /\ variant = "merger"
    /\ m_pc = "init"
    /\ disk_bfd # NoneV
    /\ bfd' = disk_bfd
    /\ bfd_columns' = disk_bfd.cols
    /\ imdb_index' = BuildImdbIndex(disk_bfd)
    /\ tmdb_index' = BuildTmdbIndex(disk_bfd)
    /\ m_pc' = "loaded"
    /\ mhist' = [mhist EXCEPT !.cols0 = disk_bfd.cols]
    /\ UNCHANGED <<prog, uvars, evars, variant, m_mode, mapper, source_data, disk_bfd, m_stats,
                   merged, ncalls, last_call, ow_last, m_report, success>>

\* MetadataMerger.load_database raises FileNotFoundError
LoadFails ==
    /\ prog = "merger"
    /\ variant = "merger"
    /\ m_pc = "init"
    /\ disk_bfd = NoneV
    /\ m_pc' = "failed"
    /\ UNCHANGED <<prog, uvars, evars, variant, m_mode, mapper, source_data, disk_bfd, bfd,
                   bfd_columns, imdb_index, tmdb_index, m_stats, merged, ncalls, last_call,
                   ow_last, m_report, success, mhist>>

\* FreshInIngestionEngine.load_bfd
IngestLoad ==
    /\ prog = "merger"
    /\ variant = "ingest"
    /\ m_pc = "init"
    /\ bfd' = disk_bfd
    /\ bfd_columns' = disk_bfd.cols
    /\ imdb_index' = Ingest_BuildImdbIndex(disk_bfd)
    /\ tmdb_index' = BuildTmdbIndex(disk_bfd)
    /\ m_pc' = "loaded"
    /\ mhist' = [mhist EXCEPT !.cols0 = disk_bfd.cols]
    /\ UNCHANGED <<prog, uvars, evars, variant, m_mode, mapper, source_data, disk_bfd, m_stats,
                   merged, ncalls, last_call, ow_last, m_report, success>>

\* an order that applies FlixPatrol before TMDB
MergeOrder_FlixFirst == <<"flixpatrol", "disney_plus", "tmdb">>

\* the order of run_merge
MergeOrder == <<"tmdb", "disney_plus", "flixpatrol">>

\* one merge step on the current objects: [raised, bfd, stats]
MergeOf(src) ==
    IF src = "tmdb"
    THEN merge_tmdb(mapper, bfd, bfd_columns, tmdb_index, m_stats, source_data.tmdb)
    ELSE IF src = "disney_plus"
    THEN merge_disney_plus(mapper, bfd, bfd_columns, imdb_index, m_stats,
                           source_data.disney_plus)
    ELSE merge_flixpatrol(mapper, bfd, bfd_columns, imdb_index, tmdb_index, m_stats,
                          source_data.flixpatrol)

\* run_merge: the next merge step returns
PipelineMerge ==
    /\ prog = "merger"
    /\ m_mode = "run_merge"
    /\ m_pc = "loaded"
    /\ Len(merged) < Len(MergeOrder)
    /\ \E o \in {MergeOf(MergeOrder[Len(merged) + 1])} :
        /\ ~o.raised
        /\ bfd' = o.bfd
        /\ m_stats' = o.stats
    /\ merged' = Append(merged, MergeOrder[Len(merged) + 1])
    /\ UNCHANGED <<prog, uvars, evars, variant, m_mode, mapper, source_data, disk_bfd, bfd_columns,
                   imdb_index, tmdb_index, m_pc, ncalls, last_call, ow_last, m_report,
                   success, mhist>>

\* run_merge: the next merge step raises; control goes to the except clause
PipelineMergeRaises ==
    /\ prog = "merger"
    /\ m_mode = "run_merge"
    /\ m_pc = "loaded"
    /\ Len(merged) < Len(MergeOrder)
    /\ \E o \in {MergeOf(MergeOrder[Len(merged) + 1])} :
        /\ o.raised
        /\ bfd' = o.bfd
        /\ m_stats' = o.stats
    /\ m_pc' = "failed"
    /\ UNCHANGED <<prog, uvars, evars, variant, m_mode, mapper, source_data, disk_bfd, bfd_columns,
                   imdb_index, tmdb_index, merged, ncalls, last_call, ow_last, m_report,
                   success, mhist>>

\* a merge method called on its own; an exception leaves what the loop had written
CallMerge(src) ==
    /\ prog = "merger"
    /\ m_mode = "calls"
    /\ variant = "merger"
    /\ m_pc = "loaded"
    /\ src \notin Range(merged)
    /\ \E o \in {MergeOf(src)} :
        /\ bfd' = o.bfd
        /\ m_stats' = o.stats
    /\ merged' = Append(merged, src)
    /\ last_call' = NoCall
    /\ ow_last' = <<>>
    /\ UNCHANGED <<prog, uvars, evars, variant, m_mode, mapper, source_data, disk_bfd, bfd_columns,
                   imdb_index, tmdb_index, m_pc, ncalls, m_report, success, mhist>>

\* the column a call addresses and the emptiness test of the engine in use
CanonOf(column) == IF variant = "merger" THEN to_canonical(mapper, column) ELSE column
EmptyOf(val) == IF variant = "merger" THEN is_empty(val) ELSE Ingest_is_empty(val)

\* _update_value of the engine in use
UpdateOf(idx, column, value, mode) ==
    IF variant = "merger"
    THEN _update_value(mapper, bfd, bfd_columns, idx, column, value, mode)
    ELSE Ingest_update_value(bfd, bfd_columns, idx, column, value, mode)

\* a direct call _update_value(idx, column, value, mode)
UpdateValueCall(idx, column, value, mode) ==
    /\ prog = "merger"
    /\ m_mode = "calls"
    /\ m_pc = "loaded"
    /\ ncalls < MaxCalls
    /\ \E r \in {UpdateOf(idx, column, value, mode)} :
        /\ bfd' = r.bfd
        /\ last_call' = [idx |-> idx, column |-> column, value |-> value, mode |-> mode,
                         before |-> bfd, ret |-> r.ret, raised |-> r.raised]
    /\ ncalls' = ncalls + 1
    /\ ow_last' =
          IF mode = "OVERWRITE" /\ CanonOf(column) \in bfd_columns /\ ~EmptyOf(value)
          THEN [c \in DOMAIN ow_last \cup {<<idx, CanonOf(column)>>} |->
                   IF c = <<idx, CanonOf(column)>> THEN value ELSE ow_last[c]]
          ELSE ow_last
    /\ UNCHANGED <<prog, uvars, evars, variant, m_mode, mapper, source_data, disk_bfd, bfd_columns,
                   imdb_index, tmdb_index, m_stats, m_pc, merged, m_report, success, mhist>>

\* the save step may run: after the three merges in run_merge, any time otherwise
SaveReady ==
    /\ prog = "merger"
    /\ m_pc \in {"loaded", "tampered"}
    /\ m_mode = "run_merge" => Len(merged) = Len(MergeOrder)

\* MetadataMerger.save_database
SaveDatabase ==
    /\ SaveReady
    /\ variant = "merger"
    /\ \E o \in {save_database(bfd, bfd_columns, m_stats, disk_bfd)} :
        /\ disk_bfd' = o.disk
        /\ m_stats' = o.stats
        /\ success' = o.ret
        /\ mhist' = [mhist EXCEPT !.saved = TRUE, !.wrote = o.wrote]
    /\ m_pc' = "saved"
    /\ last_call' = NoCall
    /\ UNCHANGED <<prog, uvars, evars, variant, m_mode, mapper, source_data, bfd, bfd_columns,
                   imdb_index, tmdb_index, merged, ncalls, ow_last, m_report>>

\* FreshInIngestionEngine.save
IngestSave ==
    /\ SaveReady
    /\ variant = "ingest"
    /\ \E o \in {Ingest_save(bfd, bfd_columns, m_stats, disk_bfd)} :
        /\ disk_bfd' = o.disk
        /\ m_stats' = o.stats
        /\ success' = o.ret
        /\ mhist' = [mhist EXCEPT !.saved = TRUE, !.wrote = o.wrote]
    /\ m_pc' = "saved"
    /\ last_call' = NoCall
    /\ UNCHANGED <<prog, uvars, evars, variant, m_mode, mapper, source_data, bfd, bfd_columns,
                   imdb_index, tmdb_index, merged, ncalls, ow_last, m_report>>

\* variant of GenerateReport that returns without a report after a failed save
GenerateReport_OnlyOnSuccess ==
    /\ prog = "merger"
    /\ variant = "merger"
    /\ m_pc = "saved"
    /\ m_report' = IF success THEN generate_report(m_stats) ELSE m_report
    /\ m_pc' = "done"
    /\ UNCHANGED <<prog, uvars, evars, variant, m_mode, mapper, source_data, disk_bfd, bfd,
                   bfd_columns, imdb_index, tmdb_index, m_stats, merged, ncalls, last_call,
                   ow_last, success, mhist>>

\* generate_report after the save, whatever the save returned; run_merge
\* then returns the report
GenerateReport ==
    /\ prog = "merger"
    /\ variant = "merger"
    /\ m_pc = "saved"
    /\ m_report' = generate_report(m_stats)
    /\ m_pc' = "done"
    /\ UNCHANGED <<prog, uvars, evars, variant, m_mode, mapper, source_data, disk_bfd, bfd,
                   bfd_columns, imdb_index, tmdb_index, m_stats, merged, ncalls, last_call,
                   ow_last, success, mhist>>

\* the except clause of run_merge builds the error report; run_merge returns it
FailReport ==
    /\ prog = "merger"
    /\ m_pc = "failed"
    /\ m_report' = ErrorReport
    /\ m_pc' = "done"
    /\ UNCHANGED <<prog, uvars, evars, variant, m_mode, mapper, source_data, disk_bfd, bfd,
                   bfd_columns, imdb_index, tmdb_index, m_stats, merged, ncalls, last_call,
                   ow_last, success, mhist>>

\* a frame with one more column / with one column less
AddColumn(tbl_, col_) ==
    One({(
        [cols |-> tbl.cols \cup {col},
         rows |-> [r \in DOMAIN tbl.rows |->
                     [c \in tbl.cols \cup {col} |-> IF c \in tbl.cols THEN tbl.rows[r][c] ELSE NaNV]]]
        ) : tbl \in {tbl_}, col \in {col_}})
DropColumn(tbl_, col_) ==
    One({(
        [cols |-> tbl.cols \ {col},
         rows |-> [r \in DOMAIN tbl.rows |-> [c \in tbl.cols \ {col} |-> tbl.rows[r][c]]]]
        ) : tbl \in {tbl_}, col \in {col_}})

\* "through any path" the frame reports another column set before the save:
\* a column added, a column removed, or both
Tamper(kind, col) ==
    /\ SaveReady
    /\ m_pc = "loaded"
    /\ col \in bfd.cols
    /\ bfd' = IF kind = "add" THEN AddColumn(bfd, "rogue")
              ELSE IF kind = "remove" THEN DropColumn(bfd, col)
              ELSE AddColumn(DropColumn(bfd, col), "rogue")
    /\ m_pc' = "tampered"
    /\ mhist' = [mhist EXCEPT !.tampered = kind]
    /\ last_call' = NoCall
    /\ UNCHANGED <<prog, uvars, evars, variant, m_mode, mapper, source_data, disk_bfd, bfd_columns,
                   imdb_index, tmdb_index, m_stats, merged, ncalls, ow_last, m_report,
                   success>>

TamperKinds == {"add", "remove", "rename"}
TamperCols == {"premiere_date", "tmdb_score"}

NextPipeline ==
    \/ LoadDatabase
    \/ LoadFails
    \/ PipelineMerge
    \/ PipelineMergeRaises
    \/ SaveDatabase
    \/ GenerateReport
    \/ FailReport

NextCalls ==
    \/ IngestLoad
    \/ \E src \in Range(MergeOrder) : CallMerge(src)
    \/ \E idx \in {1, 2}, column \in CallColumns, value \in CallValues, mode \in Modes :
          UpdateValueCall(idx, column, value, mode)
    \/ IngestSave

NextTamper == \E kind \in TamperKinds, col \in TamperCols : Tamper(kind, col)

SpecMerger == InitMerger /\ [][NextPipeline \/ NextCalls]_vars

SpecGuard == InitMerger /\ [][NextPipeline \/ NextCalls \/ NextTamper]_vars

\* both programs run to their end: the interpreter keeps executing the next
\* statement; the frame may be tampered with once before the save
FairSpec ==
    /\ InitEngine \/ InitPipeline
    /\ [][NextEngine \/ NextPipeline \/ NextTamper]_vars
    /\ WF_vars(NextEngine \/ NextPipeline)

\* ----------------------------------------------- functions called directly
MaxKeys == 2
MaxRecords == 2

\* the sources, batch types and payloads of direct classifier calls: 'tmdb'
\* has no default entry, 'flixpatrol' has one, 'unknown_api' is in no table
DetectSources == {"tmdb", "flixpatrol", "FlixPatrol", "unknown_api"}
DetectTypes == {"popular_movies", "titles", "x", ""}
PayloadKeys == {"views", "title", "services", "changes", "shows", "trends", "revenue", "foo"}
KeySets == {K \in SUBSET PayloadKeys : Cardinality(K) <= MaxKeys}
PayloadOf(K) == PDict([key \in K |-> Num(1)])
Payloads == {PayloadOf(K) : K \in KeySets} \cup {NoneV}

\* the members of DataType
DataTypes ==
    {"title_metadata", "viewership_data", "platform_avail", "platform_changes",
     "flixpatrol_titles", "social_signals", "financial_data", "news_events",
     "trending_data", "unknown"}
SkipReasonCodes == {"", "unknown_source", "unknown_data_type"}

\* FlixPatrol records: with and without identifiers, with identifiers that are
\* None, zero, empty, padded with blanks or NaN, and with fields outside the map
RecordPool ==
    {FlixRec, NoKeyRec,
     PDict([tmdbId |-> Num(0)]),
     PDict([imdbId |-> NoneV, title |-> Str(<<"T">>)]),
     PDict([imdbId |-> Str(<<"t", "t", "1">>), overview |-> Str(<<"o">>), rank |-> Num(1)]),
     PDict([tmdbId |-> Num(5), description |-> Str(<<"d">>), overview |-> Str(<<"o">>)]),
     PDict([imdbId |-> Str(<<>>)]),
     PDict([imdbId |-> Str(<<" ", "7", " ">>), budget |-> Num(0)]),
     PDict([imdbId |-> Num(0)]),
     PDict([imdbId |-> NaNV, tmdbId |-> Num(5)])}
RecordLists == UNION {[1 .. n -> RecordPool] : n \in 0 .. MaxRecords}

InitUnits ==
    /\ prog = "unit"
    /\ EngineOff
    /\ MergerOff
    /\ u_op = "none"
    /\ u_in = <<>>
    /\ u_out = <<>>

\* DataTypeDetector.detect(source, batch_type, data)
CallDetect(source, batch_type, data) ==
    /\ prog = "unit"
    /\ u_op = "none"
    /\ u_op' = "detect"
    /\ u_in' = [source |-> source, batch_type |-> batch_type, data |-> data]
    /\ u_out' = detect(source, batch_type, data)
    /\ UNCHANGED <<prog, evars, mvars>>

\* DataTypeDetector._detect_from_content(data)
CallSniff(data) ==
    /\ prog = "unit"
    /\ u_op = "none"
    /\ u_op' = "sniff"
    /\ u_in' = [data |-> data]
    /\ u_out' = _detect_from_content(data)
    /\ UNCHANGED <<prog, evars, mvars>>

\* RoutingEngine.route(data_type, source_file, records_count, skip_reason)
CallRoute(data_type, records_count, skip_reason) ==
    /\ prog = "unit"
    /\ u_op = "none"
    /\ u_op' = "route"
    /\ u_in' = [data_type |-> data_type, records_count |-> records_count,
                skip_reason |-> skip_reason]
    /\ u_out' = route(data_type, "f", records_count, skip_reason)
    /\ UNCHANGED <<prog, evars, mvars>>

\* the mapping loop of merge_flixpatrol_to_bfd on one record
CallMapRecord(r) ==
    /\ prog = "unit"
    /\ u_op = "none"
    /\ u_op' = "map_record"
    /\ u_in' = [record |-> r]
    /\ u_out' = MapFlixRecord(r)
    /\ UNCHANGED <<prog, evars, mvars>>

\* DatabaseWriters(dry_run).merge_flixpatrol_to_bfd(records)
CallMergeFlix(records, dry) ==
    /\ prog = "unit"
    /\ u_op = "none"
    /\ u_op' = "merge_flixpatrol_to_bfd"
    /\ u_in' = [records |-> records, dry_run |-> dry]
    /\ u_out' = merge_flixpatrol_to_bfd(records, dry)
    /\ UNCHANGED <<prog, evars, mvars>>

\* identifiers handed to the normalizers: integers, digit strings (short, of
\* the pad width, longer with leading zeros), 'tt' strings (one with a trailing
\* blank), blank-padded digits, None, NaN, sentinels, other strings
IdPool ==
    {Num(76759), Num(7), Num(0), Num(12345678),
     Str(<<"7", "6", "7", "5", "9">>),
     Str(<<"0", "0", "7", "6", "7", "5", "9">>),
     Str(<<"0", "0", "0", "0", "0", "0", "0", "1">>),
     Str(<<"1", "2", "3", "4", "5", "6", "7", "8">>),
     Str(<<"t", "t", "0", "0", "7", "6", "7", "5", "9">>),
     Str(<<"t", "t", "1">>),
     Str(<<"t", "t", "1", " ">>),
     Str(<<" ", "7", " ">>),
     NoneV, NaNV,
     Str(<<>>), Str(<<" ">>), Str(<<"N", "/", "A">>),
     Str(<<"u", "n", "d", "e", "f", "i", "n", "e", "d">>),
     Str(<<"n", "m", "1">>), Str(<<"a", "b", "c">>)}

\* the three identifier normalizers of the repository
Normalizers == {"merger", "ingest", "engine"}

\* one call of a normalizer: [raised, value]
NormalizeWith(fn, val) ==
    CASE fn = "merger" -> [raised |-> FALSE, value |-> normalize_imdb_id(val)]
      [] fn = "ingest" -> [raised |-> FALSE, value |-> Ingest_normalize_imdb_id(val)]
      [] fn = "engine" -> convert_imdb_id(val)

\* normalize_imdb_id(val) / DatabaseWriters.convert_imdb_id(val)
CallNormalize(fn, val) ==
    /\ prog = "unit"
    /\ u_op = "none"
    /\ u_op' = "normalize"
    /\ u_in' = [fn |-> fn, val |-> val]
    /\ u_out' = NormalizeWith(fn, val)
    /\ UNCHANGED <<prog, evars, mvars>>

\* the same normalizer applied to its own result
CallNormalizeAgain ==
    /\ prog = "unit"
    /\ u_op = "normalize"
    /\ ~u_out.raised
    /\ u_op' = "normalize_again"
    /\ u_in' = [fn |-> u_in.fn, val |-> u_in.val, first |-> u_out.value]
    /\ u_out' = NormalizeWith(u_in.fn, u_out.value)
    /\ UNCHANGED <<prog, evars, mvars>>

\* tables for the FlixPatrol scenario: the row of tt0076759 with an empty or a
\* filled premiere_date and with any flixpatrol_id, beside another row
TT76759 == <<"t", "t", "0", "0", "7", "6", "7", "5", "9">>
ScenarioTables ==
    {[cols |-> TableCols,
      rows |-> <<TableRow(Str(TT1), Num(11), Str(<<"Y">>), Num(3), NaNV),
                 TableRow(Str(TT76759), NaNV, premiere, fp, NaNV)>>] :
        premiere \in {NaNV, NoneV, Str(<<" ", "N", "/", "A">>), Str(<<"Y">>)},
        fp \in {NaNV, Num(3), Num(42)}}
ScenarioTypes == {"titles", "x"}

\* a batch {source, type, data: {data: [record]}} taken through the engine's
\* classifier, router and FlixPatrol mapper, and the same record merged into
\* a loaded table by MetadataMerger.merge_flixpatrol
CallFlixpatrolScenario(source, batch_type, r, tbl, guide) ==
    /\ prog = "unit"
    /\ u_op = "none"
    /\ u_op' = "flixpatrol_scenario"
    /\ u_in' = [source |-> source, batch_type |-> batch_type, record |-> r,
                table |-> tbl, mapper |-> guide]
    /\ \E data \in {PDict([data |-> PList(<<r>>)])} :
       \E dd \in {detect(source, batch_type, data)} :
          u_out' = [detected |-> dd,
                    decision |-> route(dd[1], "f", RouteCount(data), dd[2]),
                    mapped |-> MapFlixRecord(r),
                    merged |-> merge_flixpatrol(guide, tbl, tbl.cols, BuildImdbIndex(tbl),
                                                BuildTmdbIndex(tbl), MergerStats, <<r.d>>)]
    /\ UNCHANGED <<prog, evars, mvars>>

\* record lists for the direct merge calls: records that address the same row
\* with different values, one by the TMDB fallback, one that matches no row
MergeItems ==
    [tmdb |-> {[id |-> Num(11), vote_average |-> Num(8), release_date |-> Str(<<"X">>)],
               [id |-> Num(11), vote_average |-> Num(9)],
               [id |-> Num(12), vote_average |-> Num(8)]},
     disney_plus |-> {[imdb_id |-> Str(TT1), tmdb_score |-> Num(5)],
                      [imdb_id |-> Num(1), tmdb_score |-> Num(6)],
                      [imdb_id |-> Str(<<"t", "t", "9">>), tmdb_score |-> Num(5)]},
     flixpatrol |-> {[id |-> Num(42), imdbId |-> Num(1), premiere |-> Str(<<"Z">>)],
                     [id |-> Num(43), tmdbId |-> Num(11), premiere |-> Str(<<"W">>)],
                     [id |-> Num(42), tmdbId |-> Num(12)]}]
MergeLists(src) == UNION {[1 .. n -> MergeItems[src]] : n \in 0 .. MaxRecords}

\* one merge method on a table with the indexes load_database built from the
\* loaded table: [raised, bfd, stats]
MergeWith(src, guide, tbl, loaded, st, data) ==
    IF src = "tmdb"
    THEN merge_tmdb(guide, tbl, loaded.cols, BuildTmdbIndex(loaded), st, data)
    ELSE IF src = "disney_plus"
    THEN merge_disney_plus(guide, tbl, loaded.cols, BuildImdbIndex(loaded), st, data)
    ELSE merge_flixpatrol(guide, tbl, loaded.cols, BuildImdbIndex(loaded),
                          BuildTmdbIndex(loaded), st, data)

\* merge_tmdb(data), merge_disney_plus(data) or merge_flixpatrol(data) on a
\* freshly loaded MetadataMerger
CallMergeSource(src, data, tbl, guide) ==
    /\ prog = "unit"
    /\ u_op = "none"
    /\ u_op' = "merge_source"
    /\ u_in' = [src |-> src, data |-> data, table |-> tbl, mapper |-> guide]
    /\ u_out' = MergeWith(src, guide, tbl, tbl, MergerStats, data)
    /\ UNCHANGED <<prog, evars, mvars>>

\* the same method called again with the same list on the same object
CallMergeSourceAgain ==
    /\ prog = "unit"
    /\ u_op = "merge_source"
    /\ ~u_out.raised
    /\ u_op' = "merge_source_again"
    /\ u_in' = [src |-> u_in.src, data |-> u_in.data, table |-> u_in.table,
                mapper |-> u_in.mapper, first |-> u_out]
    /\ u_out' = MergeWith(u_in.src, u_in.mapper, u_out.bfd, u_in.table, u_out.stats, u_in.data)
    /\ UNCHANGED <<prog, evars, mvars>>

NextUnits ==
    \/ \E source \in DetectSources, batch_type \in DetectTypes, data \in Payloads :
          CallDetect(source, batch_type, data)
    \/ \E data \in Payloads : CallSniff(data)
    \/ \E data_type \in DataTypes, records_count \in 0 .. MaxRecords,
          skip_reason \in SkipReasonCodes : CallRoute(data_type, records_count, skip_reason)
    \/ \E r \in RecordPool : CallMapRecord(r)
    \/ \E records \in RecordLists, dry \in BOOLEAN : CallMergeFlix(records, dry)
    \/ \E fn \in Normalizers, val \in IdPool : CallNormalize(fn, val)
    \/ CallNormalizeAgain
    \/ \E src \in DOMAIN MergeItems, tbl \in TablePool, guide \in MapperPool :
          \E data \in MergeLists(src) : CallMergeSource(src, data, tbl, guide)
    \/ CallMergeSourceAgain
    \/ \E source \in DetectSources, batch_type \in ScenarioTypes, r \in RecordPool,
          tbl \in ScenarioTables, guide \in MapperPool :
          CallFlixpatrolScenario(source, batch_type, r, tbl, guide)

SpecUnits == InitUnits /\ [][NextUnits]_vars

\* ------------------------------------- two writers on one loaded table
\* _update_value is a sequence of statements: the tests and the read of the
\* current cell (lines 476-484), then the decision and the write (486-499).
\* Two callers of the method on the same MetadataMerger interleave between
\* the two.
Writers == {1, 2}
WriterColumns == {"premiere_date", "flixpatrol_id"}
WriterValues == {Str(<<"X">>), Str(<<"Z">>), NoneV}
WriterArgs ==
    [idx : {1, 2}, column : WriterColumns, value : WriterValues, mode : Modes]
WriterStart == [pc |-> "start", current |-> NoneV, seen |-> NoneV, ret |-> FALSE]

InitWriters ==
    /\ prog = "writers"
    /\ EngineOff
    /\ variant = "merger"
    /\ m_mode = "off"
    /\ mapper \in MapperPool
    /\ source_data = NoData
    /\ disk_bfd \in TablePool
    /\ bfd = disk_bfd
    /\ bfd_columns = disk_bfd.cols
    /\ imdb_index = <<>>
    /\ tmdb_index = <<>>
    /\ m_stats = MergerStats
    /\ m_pc = "loaded"
    /\ merged = <<>>
    /\ ncalls = 0
    /\ last_call = NoCall
    /\ ow_last = <<>>
    /\ m_report = NoneV
    /\ success = FALSE
    /\ mhist = [EmptyMHist EXCEPT !.disk0 = disk_bfd, !.cols0 = disk_bfd.cols]
    /\ u_op = "writers"
    /\ u_in \in [Writers -> WriterArgs]
    /\ u_out = [w \in Writers |-> WriterStart]

\* _update_value up to the read of the current cell: the canonical column is
\* not in the frozen set or the value is empty (return False), else
\* current = self.bfd.at[idx, canonical_col]
WriterRead(w) ==
    /\ prog = "writers"
    /\ u_out[w].pc = "start"
    /\ u_out' =
          [u_out EXCEPT ![w] =
              IF to_canonical(mapper, u_in[w].column) \notin bfd_columns
                 \/ is_empty(u_in[w].value)
              THEN [pc |-> "done", current |-> NoneV, seen |-> NoneV, ret |-> FALSE]
              ELSE [pc |-> "read",
                    current |-> bfd.rows[u_in[w].idx][to_canonical(mapper, u_in[w].column)],
                    seen |-> bfd, ret |-> FALSE]]
    /\ UNCHANGED <<prog, evars, mvars, u_op, u_in>>

\* variant of WriterWrite that writes back the table the writer saw at its read
WriterWrite_StaleTable(w) ==
    /\ prog = "writers"
    /\ u_out[w].pc = "read"
    /\ \E r \in {UpdateCurrent(u_out[w].seen, u_in[w].idx, to_canonical(mapper, u_in[w].column),
                               u_in[w].value, u_in[w].mode, u_out[w].current,
                               is_empty(u_out[w].current))} :
          /\ bfd' = r.bfd
          /\ u_out' = [u_out EXCEPT ![w].pc = "done", ![w].ret = r.ret]
    /\ UNCHANGED <<prog, evars, u_op, u_in, variant, m_mode, mapper, source_data, disk_bfd,
                   bfd_columns, imdb_index, tmdb_index, m_stats, m_pc, merged, ncalls,
                   last_call, ow_last, m_report, success, mhist>>

\* _update_value from the mode test on: the decision taken on the value read
\* earlier, the write of the cell, the return value
WriterWrite(w) ==
    /\ prog = "writers"
    /\ u_out[w].pc = "read"
    /\ \E r \in {UpdateCurrent(bfd, u_in[w].idx, to_canonical(mapper, u_in[w].column),
                               u_in[w].value, u_in[w].mode, u_out[w].current,
                               is_empty(u_out[w].current))} :
          /\ bfd' = r.bfd
          /\ u_out' = [u_out EXCEPT ![w].pc = "done", ![w].ret = r.ret]
    /\ UNCHANGED <<prog, evars, u_op, u_in, variant, m_mode, mapper, source_data, disk_bfd,
                   bfd_columns, imdb_index, tmdb_index, m_stats, m_pc, merged, ncalls,
                   last_call, ow_last, m_report, success, mhist>>

NextWriters ==
    \/ \E w \in Writers : WriterRead(w)
    \/ \E w \in Writers : WriterWrite(w)

SpecWriters == InitWriters /\ [][NextWriters]_vars

\* ------------------------------------------------------- engine properties
\* the run has reached the end of VDBFreshInEngine.run
RunEnded == prog = "engine" /\ run >= 1 /\ pc = "idle"

ErrorsFor(f) == {i \in DOMAIN stats.errors : stats.errors[i].file = f}

\* C1: a file whose name the state file held when the run started is not
\* discovered by the run, is not opened, has none of its batches executed and
\* contributes no routing decision and no merge result.
C1_RunIdempotent ==
    prog = "engine" =>
        \A f \in hist.loaded :
            /\ f \notin Range(discovered_files)
            /\ f \notin hist.attempted
            /\ hist.executed[f] = 0
            /\ f \notin Range(hist.mr_src)
            /\ \A i \in DOMAIN all_decisions : all_decisions[i].source_file # f
            /\ \A i \in DOMAIN decisions : decisions[i].source_file # f

\* a second run over all dates has ended, a file that the first run processed
\* and merged is still in the directory, and the second run did its other work
C1_Witness ==
    /\ RunEnded
    /\ run = 2
    /\ \E f \in hist.loaded : MatchesPattern(files[f]) /\ reports[1].successful_merges # <<>>
    /\ Len(reports) = 2
    /\ reports[2].files_discovered = 1

\* C7 (as stated): during and after a dry run the state file and the platform
\* master are what they were when the run started.
C7_DryRunWritesNothing ==
    (prog = "engine" /\ run >= 1 /\ dry_run) =>
        /\ disk_state = hist.disk_state0
        /\ disk_master = hist.disk_master0

C9_ParseFailureIsolated ==
    RunEnded =>
        \A f \in Range(discovered_files) :
            ~files[f].parse_ok =>
                /\ Cardinality(ErrorsFor(f)) = 1
                /\ \A i \in ErrorsFor(f) : stats.errors[i].kind = "parse"
                /\ f \notin processed_files
                /\ \A g \in Range(discovered_files) \ {f} :
                      /\ g \in hist.attempted
                      /\ ErrorsFor(g) = {} =>
                            /\ g \in processed_files
                            /\ hist.executed[g] = Len(Batches(files[g]))

\* a run has ended in which the first file failed to parse and the file after
\* it was processed
C9_Witness ==
    /\ RunEnded
    /\ Len(discovered_files) = 2
    /\ ~files[discovered_files[1]].parse_ok
    /\ discovered_files[2] \in processed_files
    /\ stats.files_processed = 1

\* ------------------------------------------------------- merger properties
\* the save step has run
SaveDone == prog = "merger" /\ mhist.saved

UnauthorizedRecorded ==
    \E i \in DOMAIN m_stats.errors : m_stats.errors[i].kind = "unauthorized_columns"

\* the last step was a direct _update_value call
Called == prog = "merger" /\ last_call.mode # "none"
\* the cell that call addressed, before and after
CallCol == CanonOf(last_call.column)
CellBefore == last_call.before.rows[last_call.idx][CallCol]
CellAfter == bfd.rows[last_call.idx][CallCol]
\* every cell but the addressed one is as it was before the call
OtherCellsKept ==
    \A r \in DOMAIN bfd.rows : \A c \in bfd.cols :
        (r # last_call.idx \/ c # CallCol) => bfd.rows[r][c] = last_call.before.rows[r][c]

\* C2 (as stated): when the frame's column set at save time differs in any
\* way from the captured one, the save writes nothing, returns False and (in
\* the merger) records an error.
C2_AnyDifferenceBlocksSave ==
    (SaveDone /\ bfd.cols # bfd_columns) =>
        /\ ~mhist.wrote
        /\ disk_bfd = mhist.disk0
        /\ ~success
        /\ variant = "merger" => UnauthorizedRecorded

\* C2 (amended): when the frame has a column that the captured set lacks, the
\* save writes nothing and returns False, and save_database records an error
\* in stats (save of the ingestion engine only prints it); otherwise, also
\* when a column has gone, the frame is written and True is returned.
C2_AddedColumnBlocksSave ==
    SaveDone =>
        IF bfd.cols \ bfd_columns # {}
        THEN /\ ~mhist.wrote
             /\ disk_bfd = mhist.disk0
             /\ ~success
             /\ variant = "merger" <=> UnauthorizedRecorded
        ELSE /\ mhist.wrote
             /\ disk_bfd = bfd
             /\ success
             /\ ~UnauthorizedRecorded

\* a save was refused for a frame that had gained a column after real writes
C2_Witness ==
    /\ SaveDone
    /\ mhist.tampered = "add"
    /\ ~success
    /\ ~mhist.wrote
    /\ m_stats.values_updated > 0

\* C3: once the table is loaded, whatever _update_value calls and merge steps
\* have run, the frame's column set (and every row's) is the set captured at
\* load time.
C3_NoNewColumns ==
    (prog = "merger" /\ bfd # NoneV) =>
        /\ bfd.cols = bfd_columns
        /\ bfd_columns = mhist.cols0
        /\ \A r \in DOMAIN bfd.rows : DOMAIN bfd.rows[r] = bfd_columns

\* after a merge step that updated values, a call with an alias of a column
\* has changed the table
C3_Witness ==
    /\ Called
    /\ merged # <<>>
    /\ m_stats.values_updated > 0
    /\ last_call.column = "premiere"
    /\ last_call.ret

\* C4 (as stated): a call whose column name is not in the captured column
\* set, or whose value is empty, returns False and leaves the table as it was.
C4_RejectsNameOutsideSet ==
    (Called /\ (last_call.column \notin bfd_columns \/ EmptyOf(last_call.value))) =>
        /\ ~last_call.ret
        /\ bfd = last_call.before

\* C4 (amended): a call whose column, after the merger's alias translation
\* (the name itself in the ingestion engine), is not in the captured column
\* set, or whose value is empty, returns False without raising and leaves
\* the table as it was, under either policy.
C4_RejectedWriteChangesNothing ==
    (Called /\ (CallCol \notin bfd_columns \/ EmptyOf(last_call.value))) =>
        /\ ~last_call.ret
        /\ ~last_call.raised
        /\ bfd = last_call.before

\* an OVERWRITE call with a good value and a column outside the set was refused
C4_Witness ==
    /\ Called
    /\ last_call.mode = "OVERWRITE"
    /\ last_call.column = "budget"
    /\ last_call.value = Str(<<"X">>)
    /\ ~last_call.ret

\* C5: a MERGE call changes no cell that was non-empty; on an accepted column
\* with a non-empty value it sets an empty cell to the value and returns
\* True, and keeps a non-empty cell and returns False.
C5_MergeNeverClobbers ==
    (Called /\ last_call.mode = "MERGE") =>
        /\ \A r \in DOMAIN bfd.rows : \A c \in bfd.cols :
              ~EmptyOf(last_call.before.rows[r][c]) =>
                  bfd.rows[r][c] = last_call.before.rows[r][c]
        /\ (CallCol \in bfd_columns /\ ~EmptyOf(last_call.value)) =>
              /\ EmptyOf(CellBefore) => (CellAfter = last_call.value /\ last_call.ret)
              /\ ~EmptyOf(CellBefore) => (CellAfter = CellBefore /\ ~last_call.ret)
              /\ OtherCellsKept

\* a MERGE call with another non-empty value met a non-empty cell
C5_Witness ==
    /\ Called
    /\ last_call.mode = "MERGE"
    /\ CallCol \in bfd_columns
    /\ ~EmptyOf(last_call.value)
    /\ ~EmptyOf(CellBefore)
    /\ CellBefore # last_call.value
    /\ ~last_call.ret

\* C6: an OVERWRITE call on an accepted column with a non-empty value leaves
\* the value in the cell; it returns True exactly when the cell was empty or
\* held another value, and changes nothing when the cell held the value; and
\* a cell holds the last non-empty value an OVERWRITE call gave it.
C6_OverwriteSemantics ==
    /\ (Called /\ last_call.mode = "OVERWRITE" /\ CallCol \in bfd_columns
          /\ ~EmptyOf(last_call.value)) =>
            /\ CellAfter = last_call.value
            /\ last_call.ret <=> (EmptyOf(CellBefore) \/ CellBefore # last_call.value)
            /\ CellBefore = last_call.value => bfd = last_call.before
            /\ OtherCellsKept
    /\ (prog = "merger" /\ m_pc = "loaded") =>
            \A c \in DOMAIN ow_last : bfd.rows[c[1]][c[2]] = ow_last[c]

\* the second of two OVERWRITE calls gave a cell the value it already held
C6_Witness ==
    /\ Called
    /\ ncalls = 2
    /\ last_call.mode = "OVERWRITE"
    /\ CallCol \in bfd_columns
    /\ ~EmptyOf(last_call.value)
    /\ CellBefore = last_call.value
    /\ ~last_call.ret

\* C10: an engine run that has started reaches its end with one report per
\* run emitted, and run_merge reaches its end with a report to return,
\* whatever the files, the failures and the outcome of the save.
C10_ReportEventually ==
    /\ (prog = "engine" /\ pc # "idle") ~> (pc = "idle" /\ Len(reports) = run)
    /\ (prog = "merger") ~> (m_pc = "done" /\ m_report # NoneV)

\* run_merge has ended with a merge report although the save was refused
C10_Witness ==
    /\ prog = "merger"
    /\ m_pc = "done"
    /\ mhist.tampered = "add"
    /\ ~success
    /\ m_report.kind = "merge"

C12_OnlySchemaViolationBlocksSave ==
    (/\ prog = "merger"
     /\ m_mode = "run_merge"
     /\ m_pc = "done"
     /\ bfd # NoneV
     /\ bfd.cols = bfd_columns) => mhist.wrote

\* ----------------------------------------------------- classifier properties
\* the source of a detect call is in the provider table
KnownSource == Lower(u_in.source) \in DOMAIN SOURCE_MAPPING
\* the call has no payload to sniff: None or an empty mapping
NoPayload == u_in.data = NoneV \/ ~Truthy(u_in.data)
\* the table has an entry for the batch type, or a default for the provider
HasExactEntry ==
    KnownSource /\ u_in.batch_type # ""
                /\ u_in.batch_type \in DOMAIN SOURCE_MAPPING[Lower(u_in.source)]
HasDefaultEntry == KnownSource /\ "default" \in DOMAIN SOURCE_MAPPING[Lower(u_in.source)]
\* what the table alone gives: the exact entry, else the default, else UNKNOWN
TableType ==
    IF HasExactEntry THEN SOURCE_MAPPING[Lower(u_in.source)][u_in.batch_type]
    ELSE IF HasDefaultEntry THEN SOURCE_MAPPING[Lower(u_in.source)]["default"]
    ELSE "unknown"

\* C13 (as stated): detect returns 'unknown_source' exactly when the source is
\* not in the provider table and there is no payload to sniff, and for a source
\* in the table an UNKNOWN result carries 'unknown_data_type'.
C13_UnknownSourceOnlyForAbsentSource ==
    u_op = "detect" =>
        /\ u_out[2] = "unknown_source" <=> (~KnownSource /\ NoPayload)
        /\ (KnownSource /\ u_out[1] = "unknown") => u_out[2] = "unknown_data_type"

\* C14 (as stated): for a source in the provider table the DataType is what
\* the table alone gives, whatever the payload's keys.
C14_KnownSourceNeverSniffed ==
    (u_op = "detect" /\ KnownSource) => u_out[1] = TableType

\* C14 (amended): for a source in the provider table that has an entry for the
\* batch type or a default, the DataType is what the table gives and the
\* payload is not looked at; in every other case (source not in the table, or
\* in it with neither entry) the DataType is what content sniffing gives for
\* a non-empty payload and UNKNOWN without one.
C14_SniffingWhenTableGivesNothing ==
    u_op = "detect" =>
        IF HasExactEntry \/ HasDefaultEntry
        THEN u_out = <<TableType, "">>
        ELSE u_out[1] = IF NoPayload THEN "unknown" ELSE _detect_from_content(u_in.data)

\* a call for a provider with a table entry whose payload carries viewership
\* keys was classified by the table
C14_Witness ==
    /\ u_op = "detect"
    /\ u_in.source = "FlixPatrol"
    /\ u_in.batch_type = "x"
    /\ u_in.data # NoneV
    /\ "views" \in Keys(u_in.data)
    /\ u_out = <<"flixpatrol_titles", "">>

\* the keyword sets of content sniffing, in the order they are tested
SniffSets ==
    <<[keys |-> {"views", "hours_viewed", "points", "ranking", "watch_time"},
       type |-> "viewership_data"],
      [keys |-> {"imdb_id", "tmdb_id", "title", "premiere", "genres"},
       type |-> "title_metadata"],
      [keys |-> {"services", "streaming", "platform", "availability", "countrycode"},
       type |-> "platform_avail"],
      [keys |-> {"changes", "shows"}, type |-> "platform_changes"],
      [keys |-> {"trending", "trends", "hashtags", "mentions", "sentiment"},
       type |-> "social_signals"],
      [keys |-> {"revenue", "subscribers", "stock", "market_cap", "earnings"},
       type |-> "financial_data"]>>

\* rule i applies to a key set: it intersects the rule's keyword set
SetMatches(i, keys) == keys \cap SniffSets[i].keys # {}
\* the same, with the further test of the platform-changes rule
RuleMatches(i, keys) ==
    SetMatches(i, keys) /\ (SniffSets[i].type = "platform_changes" => "changes" \in keys)

SniffedKeys == IF IsDict(u_in.data) THEN Keys(u_in.data) ELSE {}

\* C16 (as stated): the result of content sniffing is the type of the first
\* keyword set, in priority order, that the payload's keys intersect, and
\* UNKNOWN when they intersect none.
C16_FirstIntersectingSetWins ==
    u_op = "sniff" =>
        IF \E i \in DOMAIN SniffSets : SetMatches(i, SniffedKeys)
        THEN \E i \in DOMAIN SniffSets :
                /\ SetMatches(i, SniffedKeys)
                /\ \A j \in 1 .. i - 1 : ~SetMatches(j, SniffedKeys)
                /\ u_out = SniffSets[i].type
        ELSE u_out = "unknown"

\* C16 (amended): the rules are tried in the order viewership, title metadata,
\* platform availability, platform changes, social, financial, and the first
\* that applies wins; a rule applies when the keys intersect its keyword set,
\* and the platform-changes rule only when 'changes' is among the keys ('shows'
\* alone does not apply it).  Keys in the viewership and the metadata set
\* give VIEWERSHIP_DATA; when no rule applies the result is UNKNOWN.
C16_FirstApplicableRuleWins ==
    u_op = "sniff" =>
        /\ IF \E i \in DOMAIN SniffSets : RuleMatches(i, SniffedKeys)
           THEN \E i \in DOMAIN SniffSets :
                   /\ RuleMatches(i, SniffedKeys)
                   /\ \A j \in 1 .. i - 1 : ~RuleMatches(j, SniffedKeys)
                   /\ u_out = SniffSets[i].type
           ELSE u_out = "unknown"
        /\ (SetMatches(1, SniffedKeys) /\ SetMatches(2, SniffedKeys)) => u_out = "viewership_data"

\* a payload with a viewership key and a metadata key was sniffed
C16_Witness ==
    /\ u_op = "sniff"
    /\ SniffedKeys = {"views", "title"}
    /\ u_out = "viewership_data"

\* --------------------------------------------------------- router properties
\* C17: for every DataType, route returns a decision whose action is one of
\* merge, update, append and skip; the action is skip, with target SKIP,
\* exactly when the type is UNKNOWN; the confidence is 0.5 for UNKNOWN and 1.0
\* for every other type; the reason is not empty; and the decision carries the
\* file, the count and the skip reason it was given.
C17_RouterContract ==
    u_op = "route" =>
        /\ u_out.action \in {"merge", "update", "append", "skip"}
        /\ u_out.action = "skip" <=> u_in.data_type = "unknown"
        /\ u_out.target_db = "SKIP" <=> u_in.data_type = "unknown"
        /\ u_out.confidence = IF u_in.data_type = "unknown" THEN 5 ELSE 10
        /\ u_out.reason # <<>>
        /\ u_out.data_type = u_in.data_type
        /\ u_out.records_count = u_in.records_count
        /\ u_out.skip_reason = u_in.skip_reason
        /\ u_out.target_db = ROUTING_TABLE[u_in.data_type].target

\* an UNKNOWN batch of two records was routed to the skip target
C17_Witness ==
    /\ u_op = "route"
    /\ u_in.data_type = "unknown"
    /\ u_in.records_count = 2
    /\ u_in.skip_reason = "unknown_source"
    /\ u_out.action = "skip"
    /\ u_out.confidence = 5

\* --------------------------------------------------- field mapper properties
\* the source fields of a record that the field map names
MappedFields(r) == {f \in DOMAIN FLIXPATROL_FIELD_MAP : f \in Keys(r)}

\* C19: the mapped record's keys are the canonical columns of the source
\* fields that the record has and the map names, so a subset of the map's
\* columns; each such field's value is copied under its column, imdbId after
\* identifier conversion and every other unchanged; a field the map does not
\* name contributes nothing to the output.
C19_MapperIsAllowList ==
    (u_op = "map_record" /\ ~u_out.raised) =>
        /\ DOMAIN u_out.mapped = {FLIXPATROL_FIELD_MAP[f] : f \in MappedFields(u_in.record)}
        /\ DOMAIN u_out.mapped \subseteq Range(FLIXPATROL_FIELD_MAP)
        /\ \A f \in MappedFields(u_in.record) :
              u_out.mapped[FLIXPATROL_FIELD_MAP[f]] =
                  IF f = "imdbId" THEN convert_imdb_id(u_in.record.d[f]).value
                  ELSE u_in.record.d[f]
        /\ \A f \in Keys(u_in.record) \ DOMAIN FLIXPATROL_FIELD_MAP :
              f \notin DOMAIN u_out.mapped \/ f \in Range(FLIXPATROL_FIELD_MAP)

\* a record with a convertible imdbId, a mapped field and a field outside
\* the map was mapped
C19_Witness ==
    /\ u_op = "map_record"
    /\ ~u_out.raised
    /\ "rank" \in Keys(u_in.record)
    /\ "overview" \in Keys(u_in.record)
    /\ DOMAIN u_out.mapped = {"imdb_id"}

\* the records of a merge_flixpatrol_to_bfd call that satisfy a test
CountWhere(Test(_)) == Cardinality({i \in DOMAIN u_in.records : Test(u_in.records[i])})
\* the record has neither identifier field, so its mapped form has neither column
LacksBothFields(r) == "imdbId" \notin Keys(r) /\ "tmdbId" \notin Keys(r)
\* the record has an identifier that counts as one: an imdbId other than None
\* and the empty string, or a tmdbId that is not None, zero or empty
HasUsableIdentifier(r) ==
    \/ "imdbId" \in Keys(r) /\ r.d["imdbId"] \notin {NoneV, Str(<<>>)}
    \/ "tmdbId" \in Keys(r) /\ Truthy(r.d["tmdbId"])
HasNoUsableIdentifier(r) == ~HasUsableIdentifier(r)
\* the number of records the call forwarded to the merge
Forwarded == u_out.result.new_records + u_out.result.updated_records

\* C20 (as stated): the records counted in skipped_records are exactly those
\* that lack both identifying columns after mapping; a record that carries
\* either, whatever its value, is forwarded; forwarded plus skipped is the
\* number of input records.
C20_RejectedIffBothColumnsAbsent ==
    (u_op = "merge_flixpatrol_to_bfd" /\ ~u_out.raised) =>
        /\ u_out.result.skipped_records = CountWhere(LacksBothFields)
        /\ Forwarded + u_out.result.skipped_records = Len(u_in.records)

\* C20 (amended): a mapped record is rejected, counted in skipped_records
\* and not forwarded, exactly when neither imdb_id nor tmdb_id holds a truthy
\* value after mapping: both columns absent, or present with None, an empty
\* string or (tmdb_id) zero.  Every other record is forwarded, and forwarded
\* plus skipped is the number of input records, in a dry run and a live one.
C20_RejectedIffNoUsableIdentifier ==
    (u_op = "merge_flixpatrol_to_bfd" /\ ~u_out.raised) =>
        /\ u_out.result.skipped_records = CountWhere(HasNoUsableIdentifier)
        /\ Forwarded = CountWhere(HasUsableIdentifier)
        /\ Forwarded + u_out.result.skipped_records = Len(u_in.records)
        /\ u_out.result.total_records =
              IF u_in.dry_run \/ u_in.records = <<>> THEN Len(u_in.records) ELSE Forwarded

\* a live call over a record with an identifier and a record without one
\* forwarded the first and skipped the second
C20_Witness ==
    /\ u_op = "merge_flixpatrol_to_bfd"
    /\ ~u_in.dry_run
    /\ u_in.records = <<FlixRec, NoKeyRec>>
    /\ ~u_out.raised
    /\ u_out.result.skipped_records = 1
    /\ u_out.result.total_records = 1

\* ------------------------------------------------ batch execution properties
\* C15: any two batches classified in the engine's runs that have the same
\* source, the same batch type and the same set of payload keys received the
\* same DataType and skip reason, wherever they stood in their files and
\* runs and whatever the engine had skipped or marked processed before; and
\* that result is what detect gives for the three.
C15_ClassificationIsPure ==
    prog = "engine" =>
        \A a, b \in hist.classified :
            (a.source = b.source /\ a.batch_type = b.batch_type /\ a.keys = b.keys) =>
                /\ a.data_type = b.data_type
                /\ a.skip_reason = b.skip_reason
                /\ <<a.data_type, a.skip_reason>> =
                      detect(a.source, a.batch_type,
                             IF a.keys = {} THEN NoneV ELSE PayloadOf(a.keys))

\* the same batch was classified first in one file and second in another,
\* with different skip counts before it
C15_Witness ==
    \E a, b \in hist.classified :
        /\ a.source = b.source /\ a.batch_type = b.batch_type /\ a.keys = b.keys
        /\ a.file # b.file
        /\ a.pos # b.pos
        /\ a.skipped_before # b.skipped_before
        /\ a.data_type = b.data_type

\* the skip branch acted in this step: a decision with action skip was added
SkipExecuted ==
    /\ pc = "batch"
    /\ Len(decisions') = Len(decisions) + 1
    /\ decisions'[Len(decisions')].action = "skip"

\* C18: executing a decision whose action is skip adds the decision's record
\* count to stats.skipped, appends one skip_details entry and changes nothing
\* else in the statistics (merge_results, records_routed and every merge,
\* append and update counter stay); the batch {source: unknown_api, type: x,
\* data: {}} is classified UNKNOWN/unknown_source and adds 1 to skipped.
C18_SkipAccounting ==
    [][SkipExecuted =>
        /\ stats'.skipped = stats.skipped + decisions'[Len(decisions')].records_count
        /\ Len(stats'.skip_details) = Len(stats.skip_details) + 1
        /\ stats'.merge_results = stats.merge_results
        /\ stats'.records_routed = stats.records_routed
        /\ [stats' EXCEPT !.skipped = 0, !.skip_details = <<>>] =
              [stats EXCEPT !.skipped = 0, !.skip_details = <<>>]
        /\ disk_master' = disk_master
        /\ (CurBatch.source = "unknown_api" /\ CurBatch.type = "x" /\ CurBatch.data = EmptyDict) =>
              /\ decisions'[Len(decisions')].data_type = "unknown"
              /\ decisions'[Len(decisions')].skip_reason = "unknown_source"
              /\ stats'.skipped = stats.skipped + 1
    ]_vars

\* the batch of the unknown source was skipped after a batch that was merged
C18_Witness ==
    /\ prog = "engine"
    /\ pc = "batch"
    /\ Len(decisions) = 2
    /\ decisions[1].action = "merge"
    /\ decisions[2].action = "skip"
    /\ decisions[2].skip_reason = "unknown_source"
    /\ stats.skipped = 1
    /\ Len(stats.skip_details) = 1
    /\ Len(stats.merge_results) = 1

\* ------------------------------------------------- identifier normalization
NormCall == prog = "unit" /\ u_op = "normalize"
NormAgain == prog = "unit" /\ u_op = "normalize_again"

\* the digits of an all-digit identifier (string or integer), else <<>>
InputDigits(val) ==
    IF val.t = "num" THEN DigitsOf(val.n)
    ELSE IF val.t = "str" /\ IsDigit(val.s) THEN val.s
    ELSE <<>>
IsAllDigit(val) == InputDigits(val) # <<>>
IsTTString(val) == val.t = "str" /\ StartsWithTT(val.s)

Longer(a, b) == IF a >= b THEN a ELSE b

\* d is digits left-padded with zeros to at least width characters
IsPaddedTo(d, digits, width) ==
    /\ Len(d) = Longer(Len(digits), width)
    /\ \A i \in 1 .. Len(d) - Len(digits) : d[i] = "0"
    /\ SubSeq(d, Len(d) - Len(digits) + 1, Len(d)) = digits

RECURSIVE DropLeadingZeros(_)
\* the digits of the integer a digit string denotes
DropLeadingZeros(d) ==
    IF Len(d) > 1 /\ Head(d) = "0" THEN DropLeadingZeros(Tail(d)) ELSE d

\* v is the string 'tt' followed by digits padded to the width
IsTTPadded(v, digits, width) ==
    /\ v.t = "str"
    /\ StartsWithTT(v.s)
    /\ IsPaddedTo(SubSeq(v.s, 3, Len(v.s)), digits, width)

\* v is the string s without its trailing blanks
IsRightStripped(v, s) ==
    /\ v.t = "str"
    /\ Len(v.s) <= Len(s)
    /\ SubSeq(s, 1, Len(v.s)) = v.s
    /\ \A i \in Len(v.s) + 1 .. Len(s) : s[i] = " "
    /\ (v.s # <<>> => v.s[Len(v.s)] # " ")

\* C21 as stated: every normalizer maps an all-digit identifier to 'tt' and
\* its digits zero-padded to at least 7 characters, returns a 'tt' string
\* unchanged, maps None to None, and is idempotent.
C21_NormalizationAsStated ==
    /\ NormCall =>
         /\ ~u_out.raised \/ u_in.val = NaNV
         /\ IsAllDigit(u_in.val) => IsTTPadded(u_out.value, InputDigits(u_in.val), 7)
         /\ IsTTString(u_in.val) => u_out.value = u_in.val
         /\ u_in.val = NoneV => u_out.value = NoneV
    /\ NormAgain => ~u_out.raised /\ u_out.value = u_in.first

\* C21: every normalizer is idempotent, maps None to None and an integer or a
\* digit string to 'tt' and zero-padded digits of at least 7 characters; the
\* merger and the ingest normalizers pad the digits as given and return a 'tt'
\* string without its trailing blanks, the engine pads the digits of the
\* integer value (leading zeros beyond the width are lost) and returns a 'tt'
\* string unchanged.
C21_NormalizationPerFunction ==
    /\ NormCall =>
         /\ ~u_out.raised \/ u_in.val = NaNV
         /\ IsAllDigit(u_in.val) =>
              IF u_in.fn = "engine"
                THEN IsTTPadded(u_out.value, DropLeadingZeros(InputDigits(u_in.val)), 7)
                ELSE IsTTPadded(u_out.value, InputDigits(u_in.val), 7)
         /\ IsTTString(u_in.val) =>
              IF u_in.fn = "engine"
                THEN u_out.value = u_in.val
                ELSE IsRightStripped(u_out.value, u_in.val.s)
         /\ u_in.val = NoneV => u_out.value = NoneV
    /\ NormAgain => ~u_out.raised /\ u_out.value = u_in.first

\* the merger's normalizer has padded the integer 76759 and has been applied
\* to its own result
C21_Witness ==
    /\ NormAgain
    /\ u_in.fn = "merger"
    /\ u_in.val = Num(76759)
    /\ u_in.first = Str(<<"t", "t", "0", "0", "7", "6", "7", "5", "9">>)
    /\ u_out.value = u_in.first

\* an identifier the normalizers treat as empty according to the text: None
\* or a sentinel such as the empty string
IsEmptyIdentifier(val) ==
    \/ val = NoneV
    \/ val.t = "str" /\ Strip(val.s) \in EMPTY_VALUES

\* C22 as stated: a non-empty identifier that is neither all-digit nor a 'tt'
\* string is returned as it is, an empty identifier gives None, and the
\* merger's normalize_imdb_id and the engine's convert_imdb_id agree on every
\* input.
C22_PassthroughAndAgreement ==
    NormCall /\ u_in.fn \in {"merger", "engine"} =>
        /\ ( /\ u_in.val.t = "str"
             /\ ~IsEmptyIdentifier(u_in.val)
             /\ ~IsAllDigit(u_in.val)
             /\ ~IsTTString(u_in.val) ) => u_out.value = u_in.val
        /\ IsEmptyIdentifier(u_in.val) => u_out.value = NoneV
        /\ u_out = NormalizeWith(IF u_in.fn = "merger" THEN "engine" ELSE "merger", u_in.val)

\* ------------------------------------------------- the FlixPatrol scenario
ScenarioDone == prog = "unit" /\ u_op = "flixpatrol_scenario"

\* the record {id: 42, imdbId: 76759, premiere: P}
IsScenarioRecord(r) ==
    /\ IsDict(r)
    /\ Keys(r) = {"id", "imdbId", "premiere"}
    /\ r.d["id"] = Num(42)
    /\ r.d["imdbId"] = Num(76759)
    /\ r.d["premiere"].t = "str"

\* the rows of a table that hold the identifier tt0076759
RowsOf76759(tbl) ==
    {i \in DOMAIN tbl.rows : tbl.rows[i]["imdb_id"] = Str(TT76759)}

\* an empty cell as the text has it: null, NaN or a sentinel string
CellIsEmpty(v) ==
    \/ v.t \in {"none", "nan"}
    \/ v.t = "str" /\ Strip(v.s) \in EMPTY_VALUES

\* C23: a batch of source 'flixpatrol' and type 'titles' is classified
\* FLIXPATROL_TITLES and routed to BFD / merge / imdb_id; the record {id: 42,
\* imdbId: 76759, premiere: P} is mapped to imdb_id 'tt0076759'; merged into a
\* table whose row tt0076759 has an empty premiere_date it sets premiere_date
\* to P and flixpatrol_id to 42 whatever flixpatrol_id held, and no other row
\* changes.
C23_FlixpatrolEndToEnd ==
    ScenarioDone =>
        /\ (u_in.source = "flixpatrol" /\ u_in.batch_type = "titles") =>
              /\ u_out.detected = <<"flixpatrol_titles", "">>
              /\ u_out.decision.target_db = "BFD"
              /\ u_out.decision.action = "merge"
              /\ u_out.decision.key_field = "imdb_id"
              /\ u_out.decision.records_count = 1
        /\ IsScenarioRecord(u_in.record) =>
              /\ ~u_out.mapped.raised
              /\ u_out.mapped.mapped["imdb_id"] = Str(TT76759)
              /\ ~u_out.merged.raised
              /\ \A i \in DOMAIN u_in.table.rows :
                    IF i \in RowsOf76759(u_in.table)
                    THEN /\ u_out.merged.bfd.rows[i]["flixpatrol_id"] = Num(42)
                         /\ u_out.merged.bfd.rows[i]["premiere_date"] =
                               IF CellIsEmpty(u_in.table.rows[i]["premiere_date"])
                               THEN u_in.record.d["premiere"]
                               ELSE u_in.table.rows[i]["premiere_date"]
                    ELSE u_out.merged.bfd.rows[i] = u_in.table.rows[i]

\* the scenario has run on a row with an empty premiere_date and another
\* flixpatrol_id: both cells were written
C23_Witness ==
    /\ ScenarioDone
    /\ u_in.source = "flixpatrol"
    /\ u_in.batch_type = "titles"
    /\ IsScenarioRecord(u_in.record)
    /\ \E i \in RowsOf76759(u_in.table) :
          /\ u_in.table.rows[i]["premiere_date"] = NaNV
          /\ u_in.table.rows[i]["flixpatrol_id"] = Num(3)
          /\ u_out.merged.bfd.rows[i]["premiere_date"] = Str(<<"P">>)
          /\ u_out.merged.bfd.rows[i]["flixpatrol_id"] = Num(42)
    /\ u_out.merged.stats.values_updated = 2

\* --------------------------------------------------------- source priority
InPipeline == prog = "merger" /\ m_mode = "run_merge" /\ bfd # NoneV

\* the TMDB records of the run that address row r, in order
TmdbItemsFor(r) ==
    SelectSeq(source_data.tmdb,
              LAMBDA item : /\ Truthy(DGet(item, "id"))
                            /\ TryInt(DGet(item, "id")).ok
                            /\ TryInt(DGet(item, "id")).n \in DOMAIN tmdb_index
                            /\ tmdb_index[TryInt(DGet(item, "id")).n] = r)

\* the FlixPatrol records of the run that address row r, in order
FlixItemsFor(r) ==
    SelectSeq(source_data.flixpatrol,
              LAMBDA item : FlixIdx(imdb_index, tmdb_index, item) = r)

\* the premiere dates the sources supply for row r, by priority: TMDB's
\* release_date or first_air_date as a string, then FlixPatrol's premiere
PremieresFor(r) ==
    [i \in DOMAIN TmdbItemsFor(r) |->
        IF Truthy(PyOr(DGet(TmdbItemsFor(r)[i], "release_date"),
                       DGet(TmdbItemsFor(r)[i], "first_air_date")))
        THEN StrOf(PyOr(DGet(TmdbItemsFor(r)[i], "release_date"),
                        DGet(TmdbItemsFor(r)[i], "first_air_date")))
        ELSE NoneV]
    \o [i \in DOMAIN FlixItemsFor(r) |-> DGet(FlixItemsFor(r)[i], "premiere")]

\* the first value of a sequence that is not empty, None when there is none
FirstNonEmpty(vals) ==
    IF \E i \in DOMAIN vals : ~CellIsEmpty(vals[i])
    THEN vals[CHOOSE i \in DOMAIN vals :
                 ~CellIsEmpty(vals[i]) /\ \A j \in 1 .. i - 1 : CellIsEmpty(vals[j])]
    ELSE NoneV

\* the values TMDB supplies for an OVERWRITE column of row r, in order
TmdbOverwritesFor(r, field) ==
    SelectSeq([i \in DOMAIN TmdbItemsFor(r) |-> DGet(TmdbItemsFor(r)[i], field)],
              LAMBDA v : v.t = "num")

TmdbOverwriteFields == [tmdb_popularity |-> "popularity", tmdb_score |-> "vote_average"]

\* C24: within one run_merge the sources are merged in the order TMDB,
\* Disney+, FlixPatrol; once all three are merged, a premiere_date cell that
\* was empty at load holds the first non-empty value in priority order (TMDB,
\* then FlixPatrol), or is still empty when no source supplies one; and from
\* the TMDB step on, a tmdb_popularity or tmdb_score cell TMDB supplied holds
\* TMDB's value through every later step of the run.
C24_SourcePriority ==
    InPipeline =>
        /\ \E n \in 0 .. 3 : merged = SubSeq(<<"tmdb", "disney_plus", "flixpatrol">>, 1, n)
        /\ Len(merged) = 3 =>
              \A r \in DOMAIN bfd.rows :
                 CellIsEmpty(mhist.disk0.rows[r]["premiere_date"]) =>
                    bfd.rows[r]["premiere_date"] =
                       IF FirstNonEmpty(PremieresFor(r)) = NoneV
                       THEN mhist.disk0.rows[r]["premiere_date"]
                       ELSE FirstNonEmpty(PremieresFor(r))
        /\ Len(merged) >= 1 =>
              \A r \in DOMAIN bfd.rows :
                 \A col \in DOMAIN TmdbOverwriteFields \cap bfd.cols :
                    TmdbOverwritesFor(r, TmdbOverwriteFields[col]) # <<>> =>
                       bfd.rows[r][col] =
                          TmdbOverwritesFor(r, TmdbOverwriteFields[col])
                             [Len(TmdbOverwritesFor(r, TmdbOverwriteFields[col]))]

\* all three sources are merged; on a row whose premiere_date was empty TMDB's
\* date stands although FlixPatrol supplied another, and TMDB's score stands
\* although Disney+ supplied another
C24_Witness ==
    /\ InPipeline
    /\ Len(merged) = 3
    /\ \E r \in DOMAIN bfd.rows :
          /\ CellIsEmpty(mhist.disk0.rows[r]["premiere_date"])
          /\ Len(TmdbItemsFor(r)) > 0
          /\ Len(FlixItemsFor(r)) > 0
          /\ bfd.rows[r]["premiere_date"] = Str(<<"X">>)
          /\ DGet(FlixItemsFor(r)[1], "premiere") = Str(<<"Z">>)
          /\ bfd.rows[r]["tmdb_score"] = Num(8)
          /\ \E i \in DOMAIN source_data.disney_plus :
                DGet(source_data.disney_plus[i], "tmdb_score") = Num(5)

\* ------------------------------------------------- repeated application
MergedAgain == prog = "unit" /\ u_op = "merge_source_again"

\* the row a record addresses in the loaded table, 0 for none
RowAddressed(src, item, tbl) ==
    IF src = "tmdb"
    THEN IF Truthy(DGet(item, "id")) /\ TryInt(DGet(item, "id")).ok
            /\ TryInt(DGet(item, "id")).n \in DOMAIN BuildTmdbIndex(tbl)
         THEN BuildTmdbIndex(tbl)[TryInt(DGet(item, "id")).n] ELSE 0
    ELSE IF src = "disney_plus"
    THEN IF Truthy(normalize_imdb_id(DGet(item, "imdb_id")))
            /\ normalize_imdb_id(DGet(item, "imdb_id")).s \in DOMAIN BuildImdbIndex(tbl)
         THEN BuildImdbIndex(tbl)[normalize_imdb_id(DGet(item, "imdb_id")).s] ELSE 0
    ELSE FlixIdx(BuildImdbIndex(tbl), BuildTmdbIndex(tbl), item)

\* no row of the table is addressed by two records of the list
OneRecordPerRow ==
    \A i, j \in DOMAIN u_in.data :
        (i # j /\ RowAddressed(u_in.src, u_in.data[i], u_in.table) # 0)
            => RowAddressed(u_in.src, u_in.data[i], u_in.table)
                  # RowAddressed(u_in.src, u_in.data[j], u_in.table)

\* the values the second application reports as updated
ValuesAgain == u_out.stats.updates_by_source[u_in.src].values

GenerateStep == reports' # reports \/ (u_op = "off" /\ u_op' = "generate")
GenerateAgainStep == prog = "engine" /\ u_op = "off" /\ u_op' = "generate"

\* the counts and lists of a report
ReportContent(rep) ==
    [files_discovered |-> rep.files_discovered, files_processed |-> rep.files_processed,
     total_records_in |-> rep.total_records_in,
     total_records_routed |-> rep.total_records_routed, skipped |-> rep.skipped,
     routing_summary |-> rep.routing_summary, skipped_batches |-> rep.skipped_batches,
     successful_merges |-> rep.successful_merges,
     successful_appends |-> rep.successful_appends]

\* C26: a call of AuditReportGenerator.generate leaves the engine's
\* statistics, processed-file set, decisions list and discovered-file list
\* (and the persisted state) unchanged, and a second call on the engine after
\* the run gives the counts, the skipped-batch list and the merge and append
\* lists of the run's report.
C26_GenerateIsReadOnly ==
    [][ (prog = "engine" /\ GenerateStep) =>
           /\ stats' = stats
           /\ processed_files' = processed_files
           /\ all_decisions' = all_decisions
           /\ discovered_files' = discovered_files
           /\ disk_state' = disk_state
           /\ disk_master' = disk_master
           /\ GenerateAgainStep =>
                 ReportContent(u_out') = ReportContent(reports[Len(reports)]) ]_vars

\* generate has been called again after a run that skipped one batch and
\* merged another, and gave the report of the run
C26_Witness ==
    /\ prog = "engine"
    /\ u_op = "generate"
    /\ u_in.run = run
    /\ pc = "idle"
    /\ u_out.skipped_batches # <<>>
    /\ u_out.successful_merges # <<>>
    /\ u_out.total_records_in > 0
    /\ ReportContent(u_out) = ReportContent(reports[Len(reports)])
    /\ all_decisions # <<>>

\* ------------------------------------------------------- concurrent writers
WritersDone == prog = "writers" /\ \A w \in Writers : u_out[w].pc = "done"

\* the call of writer w as one uninterrupted call on table tbl
WholeCall(w, tbl) ==
    _update_value(mapper, tbl, bfd_columns, u_in[w].idx, u_in[w].column, u_in[w].value,
                  u_in[w].mode)

\* the table after writer a's call and then writer b's, each uninterrupted
SequentialTable(a, b) == WholeCall(b, WholeCall(a, disk_bfd).bfd).bfd

\* the cell writer w addresses
CellOf(w) == <<u_in[w].idx, to_canonical(mapper, u_in[w].column)>>

\* both writers applied MERGE to one cell and both returned True
BothMerged ==
    /\ WritersDone
    /\ CellOf(1) = CellOf(2)
    /\ u_in[1].mode = "MERGE" /\ u_in[2].mode = "MERGE"
    /\ u_out[1].ret /\ u_out[2].ret

\* C27: when two callers of _update_value address different rows, the table
\* after both calls is the table of a sequential execution, whatever the
\* interleaving; when both apply MERGE to one cell and both return True, each
\* had read the cell empty and the cell holds the value of only one of them.
C27_WritersOnOneTable ==
    WritersDone =>
        /\ u_in[1].idx # u_in[2].idx =>
              bfd \in {SequentialTable(1, 2), SequentialTable(2, 1)}
        /\ BothMerged =>
              /\ CellIsEmpty(u_out[1].current) /\ CellIsEmpty(u_out[2].current)
              /\ bfd.rows[CellOf(1)[1]][CellOf(1)[2]] \in {u_in[1].value, u_in[2].value}

\* the lost update: both writers saw the cell empty and returned True with
\* different values, one value is in the table, and no sequential execution
\* lets both return True
C27_Witness ==
    /\ BothMerged
    /\ u_in[1].value # u_in[2].value
    /\ CellIsEmpty(disk_bfd.rows[CellOf(1)[1]][CellOf(1)[2]])
    /\ bfd.rows[CellOf(1)[1]][CellOf(1)[2]] = u_in[2].value
    /\ ~WholeCall(2, WholeCall(1, disk_bfd).bfd).ret
    /\ ~WholeCall(1, WholeCall(2, disk_bfd).bfd).ret

\* ------------------------------------------------ batches across two runs
\* C28 as stated: no batch of a file is executed in two runs; in particular
\* the batches executed before a later batch of the file raised are not
\* executed again by the next run on the persisted state.
C28_NoBatchExecutedInTwoRuns ==
    prog = "engine" =>
        \A a, b \in hist.classified :
            (a.file = b.file /\ a.pos = b.pos) => a.run = b.run

\* ------------------------------------------------------ record accounting
\* C29 as stated: at the end of a run the records routed and the records
\* skipped add up to the records of the run's routing decisions (the
\* report's total_records_in).
C29_RecordsConserved ==
    (prog = "engine" /\ pc = "idle" /\ run > 0) =>
        stats.records_routed + stats.skipped =
            SumSeq([i \in DOMAIN all_decisions |-> all_decisions[i].records_count])

\* the counts of a MergeResult
ResultCounts(res) ==
    [total_records |-> res.total_records, new_records |-> res.new_records,
     updated_records |-> res.updated_records, skipped_records |-> res.skipped_records]

\* C30 as stated: merge_flixpatrol_to_bfd returns the same total, new,
\* updated and skipped counts in dry-run as in live on the same records.
C30_DryRunCountsAsLive ==
    (prog = "unit" /\ u_op = "merge_flixpatrol_to_bfd") =>
        \E other \in {merge_flixpatrol_to_bfd(u_in.records, ~u_in.dry_run)} :
            /\ other.raised = u_out.raised
            /\ ~u_out.raised => ResultCounts(other.result) = ResultCounts(u_out.result)

============================================================================
